---- MODULE Spec2Model ----
(***************************************************************************)
(* Model of the normalization and reconciliation layer of the contact-     *)
(* center dashboard: the session gate, the status mappers, primary-key     *)
(* inference, the data-table row operations and the skills page.           *)
(*                                                                         *)
(* JavaScript strings whose content matters (case, surrounding blanks)     *)
(* are sequences of one-character strings; `undefined` is a tagged value.  *)
(***************************************************************************)
EXTENDS Integers, Sequences, FiniteSets, TLC

VARIABLES
    \* ---- session gate (actions.ts getAuthenticatedClient) ----
    env,          \* process.env: GENESYS_CLIENT_ID / _SECRET / _REGION
    accessToken,  \* client.authentications['PureCloud OAuth'].accessToken (0 = empty)
    exchanges,    \* number of loginClientCredentialsGrant calls issued so far
    pc,           \* per gate caller: position inside getAuthenticatedClient
    result,       \* per gate caller: outcome of its last call
    held,         \* per gate caller: token held by the client it was handed
    ticket,       \* per gate caller: serial number of the exchange it awaits
    \* ---- status mappers (actions.ts mapGenesysToUserStatus, mapEdgeApiStatus) ----
    mapFn,        \* which mapper ran last: "none", "presence" or "edge"
    mapIn,        \* its raw arguments
    mapOut,       \* the status it returned
    \* ---- data tables (actions.ts getDataTableDetails / *DataTableRow, datatables/page.tsx) ----
    schema,       \* the raw schema blob the platform holds for the selected table
    pageDetails,  \* page state dataTableDetails (loaded = FALSE is null)
    call,         \* the server action in progress or last finished: kind, rowId, row
    tpc,          \* its position: "idle", "gate", "fetch", "write", "done"
    net,          \* network calls issued on behalf of the current user action, in order
    reply,        \* the platform's error answer to the row write, if it rejected it
    outcome,      \* what the user action ended with: kind and the key value it names
    \* ---- skills page (skills/page.tsx) and updateUserSkills ----
    platformSkills,    \* the platform's routing skills per user: skill id -> proficiency
    selectedUserId,    \* page state selectedUserId
    currentUserSkills, \* page state: the last-fetched set
    modifiedSkills,    \* page state: the working set, skill id -> proficiency
    fetches,           \* users whose getUserSkills request is in flight
    saving,            \* the updateUserSkills request in flight, if any
    lastPut,           \* the last putUserRoutingskills call: user and body
    putCount,          \* number of putUserRoutingskills calls issued
    \* ---- queues with live gauges (actions.ts getActiveQueues) ----
    qpc,                 \* position: "idle", "queues", "observations", "done"
    basicQueues,         \* queuesResponse.entities as fetched
    observationResponse, \* the answer to the observation query, or its failure
    queuesOut,           \* what getActiveQueues returned or that it threw
    \* ---- edge details (actions.ts getEdgeDetails) ----
    epc,                 \* position: "idle", "fetching", "done"
    edgeData,            \* state and onlineStatus of the fetched edge
    metricsResponse,     \* metricsResponse.metrics as fetched
    edgeOut,             \* what getEdgeDetails returned or that it threw
    \* ---- user list (actions.ts getGenesysUsers) ----
    upc,                 \* position: "idle", "fetching", "done"
    userResponse,        \* userResponse.entities as fetched
    usersOut,            \* what getGenesysUsers returned or that it threw
    \* ---- conversation search (actions.ts searchConversations) ----
    cpc,                   \* position: "idle", "querying", "done"
    conversationsResponse, \* result.conversations as fetched
    conversationsOut,      \* what searchConversations returned or that it threw
    \* ---- data-table page (datatables/page.tsx): selection, loads, edit dialog ----
    selectedTableId,   \* page state selectedTableId
    dataTableDetails,  \* page state dataTableDetails (id = NoTable is null)
    dataTableRows,     \* page state dataTableRows, with the table they were fetched for
    loads,             \* getDataTableDetails / getDataTableRows requests in flight
    editingRowId,      \* page state editingRowId
    editedRowData,     \* page state editedRowData (set = FALSE is null)
    rowWrite,          \* the last updateDataTableRow call of the page: payload and body
    \* ---- division change (actions.ts updateUserDivision) ----
    dpc,               \* position: "idle", "getUser", "patch", "done"
    userVersion,       \* the version stamp the platform holds for the user
    currentUser,       \* what getUser answered: the version it carries, if any
    patches,           \* the patchUser bodies issued, in order
    patchReply,        \* the platform's answer to the patch: "none", "ok", "conflict", "rejected"
    divisionOut,       \* what updateUserDivision returned or that it threw
    divisionCall,      \* the arguments of the call: userId and divisionId
    edgeFailure        \* which request of getEdgeDetails was rejected: "none", "edge", "metrics", "both"

gateVars == <<env, accessToken, exchanges, pc, result, held, ticket>>

mapperVars == <<mapFn, mapIn, mapOut>>

tableVars == <<schema, pageDetails, call, tpc, net, reply, outcome>>

vars == <<env, accessToken, exchanges, pc, result, held, ticket,
          mapFn, mapIn, mapOut,
          schema, pageDetails, call, tpc, net, reply, outcome,
          platformSkills, selectedUserId, currentUserSkills, modifiedSkills,
          fetches, saving, lastPut, putCount,
          qpc, basicQueues, observationResponse, queuesOut,
          epc, edgeData, metricsResponse, edgeOut,
          upc, userResponse, usersOut,
          cpc, conversationsResponse, conversationsOut,
          selectedTableId, dataTableDetails, dataTableRows, loads, editingRowId, editedRowData, rowWrite,
          dpc, userVersion, currentUser, patches, patchReply, divisionOut,
          divisionCall,
          edgeFailure>>

queueVars == <<qpc, basicQueues, observationResponse, queuesOut>>

edgeVars == <<epc, edgeData, metricsResponse, edgeOut, edgeFailure>>

userVars == <<upc, userResponse, usersOut>>

convVars == <<cpc, conversationsResponse, conversationsOut>>

\* the state of the read operations that normalise platform answers
readVars == <<queueVars, edgeVars, userVars, convVars>>

skillVars == <<platformSkills, selectedUserId, currentUserSkills, modifiedSkills,
               fetches, saving, lastPut, putCount>>

divisionVars == <<divisionCall, dpc, userVersion, currentUser, patches, patchReply, divisionOut>>

pageVars == <<selectedTableId, dataTableDetails, dataTableRows, loads, editingRowId, editedRowData, rowWrite>>

(***************************************************************************)
(* Bounds                                                                  *)
(***************************************************************************)
MaxCallers == 3
MaxExchanges == 3
MaxLowered == 2     \* letters of a vocabulary word given in lower case (or all of them)
MaxStrLen == 2      \* length of the strings found in schema.key and schema.required
MaxSaves == 1       \* skill replace calls issued in one run
MaxResults == 2     \* observation results in one observation response
MaxSamples == 3     \* metric samples in one edge metrics response
MaxContacts == 2    \* entries of one user's primaryContactInfo
MaxParticipants == 2 \* participants of one conversation
MaxChanges == 2     \* changes other writers make to the user during one division change

Callers == 1..MaxCallers

(***************************************************************************)
(* JavaScript values and strings                                           *)
(***************************************************************************)
JUndef == [t |-> "undefined", s |-> <<>>, n |-> 0]
JNull == [t |-> "null", s |-> <<>>, n |-> 0]
JStr(str) == [t |-> "string", s |-> str, n |-> 0]
JNum(num) == [t |-> "number", s |-> <<>>, n |-> num]

LowerLetters == <<"a", "b", "c", "d", "e", "f", "g", "h", "i", "j", "k", "l", "m", "n", "o", "p", "q", "r", "s", "t", "u", "v", "w", "x", "y", "z">>
UpperLetters == <<"A", "B", "C", "D", "E", "F", "G", "H", "I", "J", "K", "L", "M", "N", "O", "P", "Q", "R", "S", "T", "U", "V", "W", "X", "Y", "Z">>

ToUpperChar(ch) ==
    IF \E i \in 1..26 : LowerLetters[i] = ch
    THEN UpperLetters[CHOOSE i \in 1..26 : LowerLetters[i] = ch]
    ELSE ch

ToLowerChar(ch) ==
    IF \E i \in 1..26 : UpperLetters[i] = ch
    THEN LowerLetters[CHOOSE i \in 1..26 : UpperLetters[i] = ch]
    ELSE ch

ToUpperCase_Identity(str) == str

\* String.prototype.toUpperCase
ToUpperCase(str) == [i \in 1..Len(str) |-> ToUpperChar(str[i])]

\* !v for a string-or-undefined value v
JFalsy(v) == v.t = "undefined" \/ v.t = "null" \/ (v.t = "string" /\ v.s = <<>>)

(***************************************************************************)
(* Status mappers                                                          *)
(***************************************************************************)
W_AVAILABLE == <<"A", "V", "A", "I", "L", "A", "B", "L", "E">>
W_IDLE == <<"I", "D", "L", "E">>
W_BUSY == <<"B", "U", "S", "Y">>
W_MEAL == <<"M", "E", "A", "L">>
W_TRAINING == <<"T", "R", "A", "I", "N", "I", "N", "G">>
W_AWAY == <<"A", "W", "A", "Y">>
W_BREAK == <<"B", "R", "E", "A", "K">>
W_ON_QUEUE == <<"O", "N", "_", "Q", "U", "E", "U", "E">>
W_MEETING == <<"M", "E", "E", "T", "I", "N", "G">>
W_OFFLINE == <<"O", "F", "F", "L", "I", "N", "E">>
W_ACTIVE == <<"A", "C", "T", "I", "V", "E">>
W_INACTIVE == <<"I", "N", "A", "C", "T", "I", "V", "E">>
W_ONLINE == <<"O", "N", "L", "I", "N", "E">>
W_DEGRADED == <<"D", "E", "G", "R", "A", "D", "E", "D">>
W_DELETED == <<"D", "E", "L", "E", "T", "E", "D">>

PresenceStatuses == {"Available", "Busy", "Offline", "On Queue", "Away", "Meeting"}
EdgeStatuses == {"Online", "Offline", "Degraded", "Unknown"}

\* mapGenesysToUserStatus(genesysSystemPresence?)
MapGenesysToUserStatus(raw) ==
    IF JFalsy(raw) THEN "Offline"
    ELSE LET up == ToUpperCase(raw.s) IN
         IF up = W_AVAILABLE \/ up = W_IDLE THEN "Available"
         ELSE IF up = W_BUSY \/ up = W_MEAL \/ up = W_TRAINING THEN "Busy"
         ELSE IF up = W_AWAY \/ up = W_BREAK THEN "Away"
         ELSE IF up = W_ON_QUEUE THEN "On Queue"
         ELSE IF up = W_MEETING THEN "Meeting"
         ELSE IF up = W_OFFLINE THEN "Offline"
         ELSE "Offline"

\* apiState?.toUpperCase()
OptUpper(v) == IF v.t = "string" THEN JStr(ToUpperCase(v.s)) ELSE JUndef

MapEdgeApiStatus_NoOffline(apiState, apiOnlineStatus) ==
    LET state == OptUpper(apiState)
        onlineStatus == OptUpper(apiOnlineStatus)
    IN  IF state = JStr(W_ACTIVE) /\ onlineStatus = JStr(W_ONLINE) THEN "Online"
        ELSE IF state = JStr(W_ACTIVE) /\ onlineStatus = JStr(W_DEGRADED) THEN "Degraded"
        ELSE IF state = JStr(W_INACTIVE) THEN "Offline"
        ELSE "Unknown"

\* mapEdgeApiStatus(apiState, apiOnlineStatus)
MapEdgeApiStatus(apiState, apiOnlineStatus) ==
    LET state == OptUpper(apiState)
        onlineStatus == OptUpper(apiOnlineStatus)
    IN  IF state = JStr(W_ACTIVE) /\ onlineStatus = JStr(W_ONLINE) THEN "Online"
        ELSE IF state = JStr(W_ACTIVE) /\ onlineStatus = JStr(W_DEGRADED) THEN "Degraded"
        ELSE IF state = JStr(W_ACTIVE) /\ onlineStatus = JStr(W_OFFLINE) THEN "Offline"
        ELSE IF state = JStr(W_INACTIVE) THEN "Offline"
        ELSE "Unknown"

\* a vocabulary word with the letters at the positions in S given in lower case
Lowered(w, S) == [i \in 1..Len(w) |-> IF i \in S THEN ToLowerChar(w[i]) ELSE w[i]]

\* spellings of w delivered by the platform: up to MaxLowered letters, or all, in lower case
Spellings(w) ==
    {Lowered(w, S) : S \in {T \in SUBSET (1..Len(w)) : Cardinality(T) <= MaxLowered \/ T = 1..Len(w)}}

\* strings outside the presence vocabulary
OtherPresences ==
    {<<"O", "N", " ", "Q", "U", "E", "U", "E">>, <<"O", "n", " ", "Q", "u", "e", "u", "e">>,
     <<"A", "V", "A", "I", "L", "A", "B", "L", "E", " ">>, <<"O", "U", "T", "_", "O", "F", "_", "O", "F", "F", "I", "C", "E">>, <<"B", "U", "S", "Y", "1">>}

PresenceInputs ==
    {JUndef, JStr(<<>>)} \cup {JStr(str) : str \in OtherPresences}
    \cup {JStr(str) : str \in UNION {Spellings(w) :
              w \in {W_AVAILABLE, W_IDLE, W_BUSY, W_MEAL, W_TRAINING, W_AWAY,
                     W_BREAK, W_ON_QUEUE, W_MEETING, W_OFFLINE}}}

EdgeStateInputs ==
    {JUndef, JStr(<<>>), JStr(<<"S", "T", "A", "N", "D", "B", "Y">>)}
    \cup {JStr(str) : str \in UNION {Spellings(w) : w \in {W_ACTIVE, W_INACTIVE, W_DELETED}}}

EdgeOnlineInputs ==
    {JUndef, JStr(<<>>), JStr(<<"U", "N", "K", "N", "O", "W", "N">>)}
    \cup {JStr(str) : str \in UNION {Spellings(w) : w \in {W_ONLINE, W_DEGRADED, W_OFFLINE}}}

\* getGenesysUsers derives the status of a user record from its raw presence
MapUserStatus ==
    \E raw \in PresenceInputs :
        /\ mapFn = "none"
        /\ mapFn' = "presence"
        /\ mapIn' = <<raw, JUndef>>
        /\ mapOut' = MapGenesysToUserStatus(raw)

\* getEdgesBasicInfo / getEdgeDetails derive the status of an edge record
MapEdgeStatus ==
    \E apiState \in EdgeStateInputs, apiOnlineStatus \in EdgeOnlineInputs :
        /\ mapFn = "none"
        /\ mapFn' = "edge"
        /\ mapIn' = <<apiState, apiOnlineStatus>>
        /\ mapOut' = MapEdgeApiStatus(apiState, apiOnlineStatus)

(***************************************************************************)
(* Primary-key inference (getDataTableDetails)                             *)
(***************************************************************************)
RECURSIVE TrimStart(_)
TrimStart(str) ==
    IF str # <<>> /\ Head(str) = " " THEN TrimStart(Tail(str)) ELSE str

RECURSIVE TrimEnd(_)
TrimEnd(str) ==
    IF str # <<>> /\ str[Len(str)] = " " THEN TrimEnd(SubSeq(str, 1, Len(str) - 1)) ELSE str

Trim_StartOnly(str) == TrimStart(str)

\* String.prototype.trim
Trim(str) == TrimEnd(TrimStart(str))

\* String(v) for the values a row field can hold
StringOf(v) ==
    IF v.t = "string" THEN v.s
    ELSE IF v.t = "number" THEN <<(<<"0", "1", "2", "3", "4", "5", "6", "7", "8", "9">>)[v.n + 1]>>
    ELSE IF v.t = "null" THEN <<"n", "u", "l", "l">>
    ELSE <<"u", "n", "d", "e", "f", "i", "n", "e", "d">>

SchemaChars == {"a", "b", " "}
SchemaStrings == UNION {[1..k -> SchemaChars] : k \in 0..MaxStrLen}

\* column names a schema may declare
PropNames == {<<"a">>, <<"b">>, <<" ", "a">>}

\* schema.key: missing, not a string, or a string
SchemaKeys == {JUndef, JNum(7)} \cup {JStr(str) : str \in SchemaStrings}

\* schema.required: missing, not an array, or an array of zero, one or two entries
SchemaRequireds ==
    {[t |-> "absent", items |-> <<>>], [t |-> "string", items |-> <<>>],
     [t |-> "array", items |-> <<>>],
     [t |-> "array", items |-> <<JNum(7)>>],
     [t |-> "array", items |-> <<JStr(<<"a">>), JStr(<<"b">>)>>],
     [t |-> "array", items |-> <<JStr(<<"a">>), JStr(<<"a">>)>>]}
    \cup {[t |-> "array", items |-> <<JStr(str)>>] : str \in SchemaStrings}

\* colDefinition.type: a string, an object whose own type is a string, an
\* object whose own type is not a string, missing, or a number
TDirect(name) == [k |-> "string", name |-> name, inner |-> [k |-> "undefined", name |-> ""]]
TNested(name) == [k |-> "object", name |-> "", inner |-> [k |-> "string", name |-> name]]
TNestedTwice == [k |-> "object", name |-> "", inner |-> [k |-> "object", name |-> ""]]
TMissing == [k |-> "undefined", name |-> "", inner |-> [k |-> "undefined", name |-> ""]]
TNumber == [k |-> "number", name |-> "", inner |-> [k |-> "undefined", name |-> ""]]

ColumnTypeOf_DirectOnly(colType) ==
    IF colType.k = "string" THEN colType.name ELSE "string"

\* columnType of getDataTableDetails
ColumnTypeOf(colType) ==
    IF colType.k = "string" THEN colType.name
    ELSE IF colType.k = "object" /\ colType.inner.k = "string" THEN colType.inner.name
    ELSE "string"

\* schema.properties: missing, or an object with some of the column names,
\* each declared as {type: "string"}
SchemaProperties ==
    {[defined |-> FALSE, names |-> {}, types |-> <<>>]}
    \cup {[defined |-> TRUE, names |-> N, types |-> [n \in N |-> TDirect("string")]] :
             N \in SUBSET PropNames}

NoSchema ==
    [present |-> FALSE, key |-> JUndef,
     required |-> [t |-> "absent", items |-> <<>>],
     properties |-> [defined |-> FALSE, names |-> {}, types |-> <<>>]]

Schemas ==
    {NoSchema} \cup
    [present : {TRUE}, key : SchemaKeys, required : SchemaRequireds,
     properties : SchemaProperties]

\* tier 1: schema.key is a string that is non-empty after trimming
KeyUsable(sch) == sch.key.t = "string" /\ Len(Trim(sch.key.s)) > 0

\* tier 2 guard: schema.required is an array of exactly one non-blank string
RequiredUsable(sch) ==
    /\ sch.required.t = "array"
    /\ Len(sch.required.items) = 1
    /\ sch.required.items[1].t = "string"
    /\ Len(Trim(sch.required.items[1].s)) > 0

InferPrimaryKey_RequiredFirst(sch) ==
    IF ~sch.present THEN JUndef
    ELSE IF RequiredUsable(sch)
            /\ sch.properties.defined
            /\ Trim(sch.required.items[1].s) \in sch.properties.names
    THEN JStr(Trim(sch.required.items[1].s))
    ELSE IF KeyUsable(sch) THEN JStr(Trim(sch.key.s))
    ELSE JUndef

\* determinedPrimaryKeyField of getDataTableDetails
InferPrimaryKey(sch) ==
    IF ~sch.present THEN JUndef
    ELSE IF KeyUsable(sch) THEN JStr(Trim(sch.key.s))
    ELSE IF RequiredUsable(sch)
    THEN LET potentialPkFromRequired == Trim(sch.required.items[1].s)
         IN  IF sch.properties.defined /\ potentialPkFromRequired \in sch.properties.names
             THEN JStr(potentialPkFromRequired)
             ELSE JUndef
    ELSE JUndef

\* the declared shapes of a column type the model distinguishes
ColumnTypes == {TDirect("string"), TDirect("number"), TNested("boolean"), TNestedTwice, TMissing, TNumber}

\* schemas whose columns "a" and "b" are declared in every shape
ColumnSchemas ==
    [present : {TRUE},
     key : {JUndef, JStr(<<>>), JStr(<<"b">>)},
     required : {[t |-> "absent", items |-> <<>>], [t |-> "array", items |-> <<JStr(<<"a">>)>>]},
     properties : {[defined |-> TRUE, names |-> {<<"a">>, <<"b">>}, types |-> types] :
                      types \in [{<<"a">>, <<"b">>} -> ColumnTypes]}]

\* properties of getDataTableDetails: one DataTableColumn per schema property
ColumnsOf(sch) ==
    IF sch.present /\ sch.properties.defined
    THEN [colName \in sch.properties.names |->
             [type |-> ColumnTypeOf(sch.properties.types[colName]),
              isPrimaryKey |-> (JStr(colName) = InferPrimaryKey(sch))]]
    ELSE <<>>

\* the DataTableDetails record getDataTableDetails returns
DetailsOf(sch) ==
    [loaded |-> TRUE,
     primaryKeyField |-> InferPrimaryKey(sch),
     columns |-> ColumnsOf(sch)]

NoDetails == [loaded |-> FALSE, primaryKeyField |-> JUndef, columns |-> <<>>]

\* the schemas the row operations are exercised against
RowSchemas ==
    {sch \in Schemas :
        /\ sch.key \in {JUndef, JStr(<<"a">>), JStr(<<"b">>)}
        /\ sch.required \in {[t |-> "absent", items |-> <<>>],
                              [t |-> "array", items |-> <<JStr(<<"a">>)>>],
                              [t |-> "array", items |-> <<JStr(<<" ", "a">>)>>],
                              [t |-> "array", items |-> <<JStr(<<"a">>), JStr(<<"b">>)>>]}}

\* the gate caller that stands for the data-table server action
TableCaller == 1

RowValues == {JUndef, JNull, JStr(<<>>), JStr(<<" ">>), JStr(<<"a">>), JNum(5)}

\* row payloads: an open map from field names to values (JUndef = field absent)
Rows == {r \in [PropNames -> RowValues] : r[<<"b">>] = JNum(5) /\ r[<<" ", "a">>] = JUndef}

RowIds == {<<"a">>}

NoRow == [f \in PropNames |-> JUndef]

\* rowData[name]
Field(row, name) == IF name \in DOMAIN row THEN row[name] ELSE JUndef

KeyConflict == "architect.datatables.key.conflict"

\* error answers of the platform: error.body.code and whether
\* error.body.details[0].errorMessage is present
ErrorReplies == [code : {KeyConflict, "other"}, detail : BOOLEAN]

NoReply == [code |-> "none", detail |-> FALSE]
NoOutcome == [kind |-> "none", key |-> <<>>]
Failure(kind) == [kind |-> kind, key |-> <<>>]
NoCall == [kind |-> "none", origin |-> "none", rowId |-> <<>>, row |-> NoRow]

RowWrites == {"postFlowsDatatableRows", "putFlowsDatatableRow", "deleteFlowsDatatableRow"}

(***************************************************************************)
(* Skills: values                                                          *)
(***************************************************************************)
JNaN == [t |-> "number", s |-> <<"N", "a", "N">>, n |-> 0]

Users == {"u1", "u2"}
NoUser == "<none>"
SkillIds == {"s1", "s2"}

\* results of parseInt(e.target.value, 10) on the proficiency input
TypedProfs == {JNaN, JNum(0), JNum(9)}

NoSkills == <<>>

\* an entity of a routing-skill listing: name and proficiency are optional
Entity(named, proficiency) == [named |-> named, proficiency |-> proficiency]

\* .filter(skill => skill.id && skill.name && skill.proficiency !== undefined)
\* .map(skill => ({id, name, proficiency})) of getUserSkills / updateUserSkills,
\* read as skill id -> proficiency
UserSkillsOf(entities) ==
    [k \in {i \in DOMAIN entities : entities[i].named /\ entities[i].proficiency # JUndef}
        |-> entities[k].proficiency]

\* what the platform holds at start: skill entities per user
PlatformConfigs ==
    {[u \in Users |-> IF u = "u1" THEN [k \in {"s1", "s2"} |-> IF k = "s1" THEN Entity(TRUE, JNum(0))
                                                                          ELSE Entity(TRUE, JNum(4))]
                                  ELSE [k \in {"s2"} |-> Entity(TRUE, JNum(4))]],
     [u \in Users |-> IF u = "u1" THEN [k \in {"s1"} |-> Entity(TRUE, JNum(4))]
                                  ELSE [k \in {"s2"} |-> Entity(FALSE, JNum(2))]]}

\* what the platform may answer to a replace of `body`: the skills as sent,
\* or with one of them rated by the platform itself, or listed without a name
PlatformRating == JNum(3)
ReplaceAnswers(body) ==
    LET sent == [k \in DOMAIN body |-> Entity(TRUE, body[k])]
    IN  {sent}
        \cup {[sent EXCEPT ![k] = Entity(TRUE, PlatformRating)] : k \in DOMAIN body}
        \cup {[sent EXCEPT ![k] = Entity(FALSE, body[k])] : k \in DOMAIN body}

NoSave == [active |-> FALSE, at |-> "none", user |-> NoUser, body |-> NoSkills, answer |-> NoSkills]

Min(a, b) == IF a < b THEN a ELSE b
Max(a, b) == IF a > b THEN a ELSE b

\* Math.max(1, Math.min(5, proficiency)); NaN propagates through both
ClampProficiency(v) == IF v = JNaN THEN JNaN ELSE JNum(Max(1, Min(5, v.n)))

\* new Map(modifiedSkills).set(skillId, value)
MapSet(m, id, v) == [k \in DOMAIN m \cup {id} |-> IF k = id THEN v ELSE m[k]]

\* newModifiedSkills.delete(skillId)
MapDelete(m, id) == [k \in DOMAIN m \ {id} |-> m[k]]

(***************************************************************************)
(* Session gate                                                            *)
(***************************************************************************)
Undefined == "<undefined>"

\* keys of platformClient.PureCloudRegionHosts the model distinguishes
KnownRegions == {"us_east_1", "eu_west_1"}

EnvIds == {Undefined, "", "client-id"}
EnvSecrets == {Undefined, "", "client-secret"}
EnvRegions == {Undefined, "", "us_east_1", "eu_west_1", "moon_base_1"}

\* JavaScript `!s` for a string-or-undefined value
Falsy(s) == s = Undefined \/ s = ""

\* if (!clientId || !clientSecret || !region)
ConfigMissing == Falsy(env.clientId) \/ Falsy(env.clientSecret) \/ Falsy(env.region)

RegionHostKnown_Always == TRUE

\* PureCloudRegionHosts[region] is defined
RegionHostKnown == env.region \in KnownRegions

HasAccessToken_Never == FALSE

\* client.authentications['PureCloud OAuth']?.accessToken is truthy
HasAccessToken == accessToken # 0

ConfigErrors == {"NotConfigured", "InvalidRegion"}
AuthErrors == {"AuthFailed", "AuthInvalidClient", "AuthUnauthorizedClient"}
AuthRejections == {"invalid_client", "unauthorized_client", "other"}

\* the message chosen in the catch block of the token exchange
AuthErrorMessage(rejection) ==
    IF rejection = "invalid_client" THEN "AuthInvalidClient"
    ELSE IF rejection = "unauthorized_client" THEN "AuthUnauthorizedClient"
    ELSE "AuthFailed"

(***************************************************************************)
(* Queues with live gauges (getActiveQueues): values                       *)
(***************************************************************************)
\* value ?? fallback
Coalesce(value, fallback) == IF value \in {JUndef, JNull} THEN fallback ELSE value

\* queues the platform may list: id and name
QueueEntities ==
    {[id |-> "q1", name |-> "Support", divisionId |-> "div-1", divisionName |-> "Home"],
     [id |-> "q2", name |-> "Sales", divisionId |-> Undefined, divisionName |-> Undefined]}

\* a.localeCompare(b) for the queue names of the model
NameRank(name) == IF name = "Sales" THEN 1 ELSE 2
LocaleCompare(a, b) == NameRank(a) - NameRank(b)

\* queuesResponse.entities: the listed queues in any order, none twice
BasicQueueLists ==
    {<<>>} \cup {<<q>> : q \in QueueEntities}
    \cup {pair \in QueueEntities \X QueueEntities : pair[1] # pair[2]}

\* a metric point of an observation result: metric name and stats.count
\* (JUndef when stats or count is missing)
Point(metric, count) == [metric |-> metric, count |-> count]

\* result.data of the observation results the model distinguishes
ObservationDatas ==
    {<<>>,
     <<Point("oWaiting", JNum(3)), Point("oInteracting", JNum(2)), Point("oAvailableUsers", JNum(1))>>,
     <<Point("oWaiting", JUndef)>>,
     <<Point("oWaiting", JNum(3)), Point("oWaiting", JNum(5))>>,
     <<Point("oOnQueueUsers", JNum(7)), Point("oInteracting", JNum(4))>>}

\* result.group.queueId: a listed queue, a queue that is not listed, or missing
ObservationKeys == {"q1", "q2", "qx", Undefined}

\* observation results, with and without a data array
ObservationResults ==
    [queueId : ObservationKeys, hasData : {TRUE}, data : ObservationDatas]
    \cup [queueId : {"q1", Undefined}, hasData : {FALSE}, data : {<<>>}]

NoObservations == [status |-> "none", hasResults |-> FALSE, results |-> <<>>]
ObservationsRejected == [status |-> "failed", hasResults |-> FALSE, results |-> <<>>]

\* the three gauges as getActiveQueues first maps them
NoMetrics ==
    [interactionsWaiting |-> JUndef, interactionsActive |-> JUndef, availableMembers |-> JUndef]

MappedQueue_ZeroGauges(q) ==
    [id |-> q.id, name |-> q.name,
     divisionId |-> q.divisionId, divisionName |-> q.divisionName,
     interactionsWaiting |-> JNum(0), interactionsActive |-> JNum(0), availableMembers |-> JNum(0)]

\* mappedQueues: id, name, division (q.division?.id, q.division?.name) and
\* the three gauges
MappedQueue(q) ==
    [id |-> q.id, name |-> q.name,
     divisionId |-> q.divisionId, divisionName |-> q.divisionName,
     interactionsWaiting |-> JUndef, interactionsActive |-> JUndef, availableMembers |-> JUndef]

\* result.data.forEach(metricPoint => ...): every known metric sets its gauge
\* to stats?.count ?? 0, later points overwrite earlier ones
RECURSIVE QueueMetrics(_)
QueueMetrics(data) ==
    IF data = <<>> THEN NoMetrics
    ELSE LET before == QueueMetrics(SubSeq(data, 1, Len(data) - 1))
             metricPoint == data[Len(data)]
             count == Coalesce(metricPoint.count, JNum(0))
         IN  IF metricPoint.metric = "oWaiting"
             THEN [before EXCEPT !.interactionsWaiting = count]
             ELSE IF metricPoint.metric = "oInteracting"
             THEN [before EXCEPT !.interactionsActive = count]
             ELSE IF metricPoint.metric = "oAvailableUsers"
             THEN [before EXCEPT !.availableMembers = count]
             ELSE before

RECURSIVE MetricsMap_FirstWins(_)
MetricsMap_FirstWins(results) ==
    IF results = <<>> THEN <<>>
    ELSE LET before == MetricsMap_FirstWins(SubSeq(results, 1, Len(results) - 1))
             observation == results[Len(results)]
         IN  IF ~Falsy(observation.queueId) /\ observation.hasData /\ observation.queueId \notin DOMAIN before
             THEN MapSet(before, observation.queueId, QueueMetrics(observation.data))
             ELSE before

\* metricsMap: results.forEach(result => { if (queueId && observation.data)
\* metricsMap.set(queueId, queueMetrics) })
RECURSIVE MetricsMap(_)
MetricsMap(results) ==
    IF results = <<>> THEN <<>>
    ELSE LET before == MetricsMap(SubSeq(results, 1, Len(results) - 1))
             observation == results[Len(results)]
         IN  IF ~Falsy(observation.queueId) /\ observation.hasData
             THEN MapSet(before, observation.queueId, QueueMetrics(observation.data))
             ELSE before

\* {...queue, ...queueMetrics}: the gauges the result set overwrite the queue's
Overlay(queue, queueMetrics) ==
    [queue EXCEPT
        !.interactionsWaiting = IF queueMetrics.interactionsWaiting # JUndef
                                THEN queueMetrics.interactionsWaiting ELSE @,
        !.interactionsActive = IF queueMetrics.interactionsActive # JUndef
                               THEN queueMetrics.interactionsActive ELSE @,
        !.availableMembers = IF queueMetrics.availableMembers # JUndef
                             THEN queueMetrics.availableMembers ELSE @]

\* mappedQueues after the observation response has been joined onto it
JoinObservations(mappedQueues, response) ==
    IF ~response.hasResults THEN mappedQueues
    ELSE LET metricsMap == MetricsMap(response.results)
         IN  [i \in DOMAIN mappedQueues |->
                 IF mappedQueues[i].id \in DOMAIN metricsMap
                 THEN Overlay(mappedQueues[i], metricsMap[mappedQueues[i].id])
                 ELSE mappedQueues[i]]

\* mappedQueues.sort((a, b) => a.name.localeCompare(b.name)), a stable sort
RECURSIVE InsertByName(_, _)
InsertByName(queue, sorted) ==
    IF sorted = <<>> THEN <<queue>>
    ELSE IF LocaleCompare(queue.name, Head(sorted).name) < 0 THEN <<queue>> \o sorted
    ELSE <<Head(sorted)>> \o InsertByName(queue, Tail(sorted))

RECURSIVE SortByName(_)
SortByName(queues) ==
    IF queues = <<>> THEN <<>>
    ELSE InsertByName(queues[Len(queues)], SortByName(SubSeq(queues, 1, Len(queues) - 1)))

NoQueuesOut == [kind |-> "none", list |-> <<>>]
QueuesReturned(list) == [kind |-> "list", list |-> list]
QueuesThrown == [kind |-> "error", list |-> <<>>]

ObservationsFailureOutcome_Throws(mappedQueues) == QueuesThrown

\* the catch block around the observation query only logs; the mapped queues
\* are returned sorted
ObservationsFailureOutcome(mappedQueues) == QueuesReturned(SortByName(mappedQueues))

\* observationResponse: without a results field, or with up to MaxResults results
ObservationResponses ==
    {[status |-> "ok", hasResults |-> FALSE, results |-> <<>>]}
    \cup {[status |-> "ok", hasResults |-> TRUE, results |-> results] :
             results \in UNION {[1..n -> ObservationResults] : n \in 0..MaxResults}}

(***************************************************************************)
(* Edge details (getEdgeDetails): values                                   *)
(***************************************************************************)
\* timestamps of metric samples; two of them spell the same instant
TS_Day1 == "2024-01-01T00:00:00Z"
TS_Day1Offset == "2024-01-01T01:00:00+01:00"
TS_Day2 == "2024-01-02T00:00:00Z"

\* new Date(timestamp).getTime(), in hours since the first instant
DateTime(timestamp) ==
    IF timestamp = TS_Day2 THEN 24 ELSE 0

CPU == "edge.cpu.usage"
MEMORY == "edge.memory.usage"
RTT == "edge.network.rtt"

\* RawMetricPoint: every field is optional
Sample(metric, timestamp, value, qualifier) ==
    [metric |-> metric, timestamp |-> timestamp, value |-> value, qualifier |-> qualifier]

\* metricsResponse.metrics entries the model distinguishes
Samples ==
    {Sample(CPU, ts, v, Undefined) :
        ts \in {Undefined, TS_Day1, TS_Day1Offset, TS_Day2}, v \in {JUndef, JNum(0), JNum(7)}}
    \cup {Sample(CPU, "", JNum(7), Undefined),
          Sample(MEMORY, TS_Day1, JNum(5), Undefined),
          Sample(RTT, TS_Day1, JNum(3), "eth0"),
          Sample(RTT, TS_Day2, JNum(4), Undefined),
          Sample("edge.disk.usage", TS_Day2, JNum(9), Undefined)}

\* metricsResponse.metrics || []
RawMetricLists == UNION {[1..n -> Samples] : n \in 0..MaxSamples}

CarriesBoth_TimestampOnly(m) == ~Falsy(m.timestamp)

\* m.timestamp && m.value !== undefined
CarriesBoth(m) == ~Falsy(m.timestamp) /\ m.value # JUndef

InsertByTime_Unstable(m, sorted) ==
    LET before == SelectSeq(sorted, LAMBDA x : DateTime(x.timestamp) > DateTime(m.timestamp))
        after == SelectSeq(sorted, LAMBDA x : DateTime(x.timestamp) <= DateTime(m.timestamp))
    IN  before \o <<m>> \o after

\* one step of the stable sort with comparator
\* new Date(b.timestamp).getTime() - new Date(a.timestamp).getTime():
\* m, which followed the samples of `sorted` in the input, goes behind every
\* sample that is not older than it
InsertByTime(m, sorted) ==
    LET before == SelectSeq(sorted, LAMBDA x : DateTime(x.timestamp) >= DateTime(m.timestamp))
        after == SelectSeq(sorted, LAMBDA x : DateTime(x.timestamp) < DateTime(m.timestamp))
    IN  before \o <<m>> \o after

RECURSIVE SortLatestFirst(_)
SortLatestFirst(samples) ==
    IF samples = <<>> THEN <<>>
    ELSE InsertByTime(samples[Len(samples)],
                      SortLatestFirst(SubSeq(samples, 1, Len(samples) - 1)))

NoLatest == [present |-> FALSE, value |-> JUndef, timestamp |-> Undefined, qualifier |-> Undefined]

\* findLatestMetric(metricName), and the entry built from the sample found
FindLatestMetric(rawMetrics, metricName) ==
    LET series == SelectSeq(rawMetrics, LAMBDA m : m.metric = metricName /\ CarriesBoth(m))
        sorted == SortLatestFirst(series)
    IN  IF sorted = <<>> THEN NoLatest
        ELSE [present |-> TRUE, value |-> sorted[1].value, timestamp |-> sorted[1].timestamp,
              qualifier |-> sorted[1].qualifier]

\* processedMetrics: cpu and memory entries carry value and timestamp, the
\* rtt entry also the qualifier
ProcessedMetrics(rawMetrics) ==
    [latestCpuUsage |-> [FindLatestMetric(rawMetrics, CPU) EXCEPT !.qualifier = Undefined],
     latestMemoryUsage |-> [FindLatestMetric(rawMetrics, MEMORY) EXCEPT !.qualifier = Undefined],
     latestNetworkRtt |-> FindLatestMetric(rawMetrics, RTT)]

\* edgeData.state and edgeData.onlineStatus of the edges the model distinguishes
EdgeDatas == {<<JStr(W_ACTIVE), JStr(W_ONLINE)>>, <<JStr(W_ACTIVE), JUndef>>}

NoEdgeOut ==
    [kind |-> "none", status |-> "none",
     processedMetrics |-> [latestCpuUsage |-> NoLatest, latestMemoryUsage |-> NoLatest,
                           latestNetworkRtt |-> NoLatest]]
EdgeThrown == [NoEdgeOut EXCEPT !.kind = "error"]

\* the catch block around Promise.all: any rejected request makes
\* getEdgeDetails throw
EdgeOutcomeOnFailure(failed, data) == EdgeThrown

(***************************************************************************)
(* User list (getGenesysUsers): values                                     *)
(***************************************************************************)
\* entries of user.primaryContactInfo
Contacts ==
    [mediaType : {"PHONE", "EMAIL"}, type : {"PRIMARY", "WORK"},
     extension : {Undefined, "", "101", "202"}]

\* user.primaryContactInfo: missing, or a list of up to MaxContacts entries
NoContactInfo == [present |-> FALSE, list |-> <<>>]
ContactInfos ==
    {NoContactInfo}
    \cup {[present |-> TRUE, list |-> list] :
             list \in UNION {[1..n -> Contacts] : n \in 0..MaxContacts}}

\* Array.prototype.find: the first element passing the test, or none
FindFirst(list, Test(_)) ==
    LET hits == SelectSeq(list, Test)
    IN  IF hits = <<>> THEN [found |-> FALSE, extension |-> Undefined]
        ELSE [found |-> TRUE, extension |-> hits[1].extension]

ExtractExtension_FirstPhone(contactInfo) ==
    IF ~contactInfo.present THEN Undefined
    ELSE FindFirst(contactInfo.list,
                   LAMBDA contact : contact.mediaType = "PHONE" /\ ~Falsy(contact.extension)).extension

\* the extension getGenesysUsers derives from user.primaryContactInfo
ExtractExtension(contactInfo) ==
    IF ~contactInfo.present THEN Undefined
    ELSE LET primaryPhoneContact ==
                 FindFirst(contactInfo.list,
                           LAMBDA contact : /\ contact.mediaType = "PHONE"
                                            /\ contact.type = "PRIMARY"
                                            /\ ~Falsy(contact.extension))
             anyPhoneContactWithExt ==
                 FindFirst(contactInfo.list,
                           LAMBDA contact : contact.mediaType = "PHONE" /\ ~Falsy(contact.extension))
         IN  IF primaryPhoneContact.found THEN primaryPhoneContact.extension
             ELSE IF anyPhoneContactWithExt.found THEN anyPhoneContactWithExt.extension
             ELSE Undefined

\* the other fields of a listed user: name, system presence, division
UserProfiles ==
    {[name |-> "Ann", systemPresence |-> JStr(W_AVAILABLE),
      division |-> "div-1", divisionName |-> "Home"],
     [name |-> "Bob", systemPresence |-> JStr(W_OFFLINE),
      division |-> "div-1", divisionName |-> Undefined],
     [name |-> Undefined, systemPresence |-> JUndef,
      division |-> Undefined, divisionName |-> Undefined]}

\* x || fallback for a string-or-undefined value
OrElse(x, fallback) == IF Falsy(x) THEN fallback ELSE x

\* the UserStatus record getGenesysUsers maps a listed user to
MappedUser(profile, contactInfo) ==
    [name |-> OrElse(profile.name, "Unknown User"),
     status |-> MapGenesysToUserStatus(profile.systemPresence),
     divisionId |-> OrElse(profile.division, "N/A"),
     divisionName |-> OrElse(profile.divisionName, "N/A"),
     extension |-> ExtractExtension(contactInfo)]

NoUserResponse == [status |-> "none", entities |-> <<>>]
NoUsersOut == [kind |-> "none", list |-> <<>>]

(***************************************************************************)
(* Conversation search (searchConversations): values                       *)
(***************************************************************************)
MediaTypes == {Undefined, "", "voice", "chat"}

\* p.sessions: missing, or a list of sessions, each given by its mediaType
Participants ==
    {[hasSessions |-> FALSE, sessions |-> <<>>],
     [hasSessions |-> TRUE, sessions |-> <<>>]}
    \cup {[hasSessions |-> TRUE, sessions |-> <<mediaType>>] : mediaType \in MediaTypes}
    \cup {[hasSessions |-> TRUE, sessions |-> <<Undefined, "chat">>],
          [hasSessions |-> TRUE, sessions |-> <<"voice", "chat">>]}

\* conv.participants: missing, or a list of up to MaxParticipants participants
NoParticipants == [present |-> FALSE, list |-> <<>>]
ParticipantLists ==
    {NoParticipants}
    \cup {[present |-> TRUE, list |-> list] :
             list \in UNION {[1..n -> Participants] : n \in 0..MaxParticipants}}

\* conv.conversationEnd: missing while the conversation is open
ConversationEnds == {Undefined, TS_Day2}

\* p.sessions?.[0]?.mediaType
FirstSessionMediaType(p) ==
    IF p.hasSessions /\ Len(p.sessions) > 0 THEN p.sessions[1] ELSE Undefined

\* participants: the summaries mapped from conv.participants || []
ParticipantSummaries(participants) ==
    [i \in DOMAIN participants.list |-> [mediaType |-> FirstSessionMediaType(participants.list[i])]]

\* primaryMediaType of searchConversations
PrimaryMediaType(participants) ==
    LET summaries == ParticipantSummaries(participants)
    IN  IF Len(summaries) > 0 /\ ~Falsy(summaries[1].mediaType)
        THEN summaries[1].mediaType
        ELSE IF participants.present /\ Len(participants.list) > 0
        THEN FirstSessionMediaType(participants.list[1])
        ELSE Undefined

\* durationMillis, in hours: only when both ends of the conversation are given
DurationOf(conversationStart, conversationEnd) ==
    IF ~Falsy(conversationStart) /\ ~Falsy(conversationEnd)
    THEN JNum(DateTime(conversationEnd) - DateTime(conversationStart))
    ELSE JUndef

\* the ConversationSearchResult a conversation of the response is mapped to
MappedConversation(conv) ==
    [conversationEnd |-> conv.conversationEnd,
     durationMillis |-> DurationOf(TS_Day1, conv.conversationEnd),
     participants |-> ParticipantSummaries(conv.participants),
     primaryMediaType |-> PrimaryMediaType(conv.participants)]

NoConversationsResponse == [status |-> "none", conversations |-> <<>>]
NoConversationsOut == [kind |-> "none", list |-> <<>>]

(***************************************************************************)
(* Data-table page: values                                                 *)
(***************************************************************************)
PageTables == {"t1", "t2"}
NoTable == Undefined

\* the schema blob the platform holds for each table: t1 has the key column
\* "a" and the numeric column "b", t2 has the key column "b" only
PageSchema(tableId) ==
    IF tableId = "t1"
    THEN [present |-> TRUE, key |-> JStr(<<"a">>),
          required |-> [t |-> "absent", items |-> <<>>],
          properties |-> [defined |-> TRUE, names |-> {<<"a">>, <<"b">>},
                          types |-> [n \in {<<"a">>, <<"b">>} |->
                                        IF n = <<"a">> THEN TDirect("string")
                                                       ELSE TDirect("number")]]]
    ELSE [present |-> TRUE, key |-> JStr(<<"b">>),
          required |-> [t |-> "absent", items |-> <<>>],
          properties |-> [defined |-> TRUE, names |-> {<<"b">>},
                          types |-> [n \in {<<"b">>} |-> TDirect("string")]]]

\* what getDataTableDetails(tableId) returns to the page
PageDetails(tableId) ==
    [id |-> tableId,
     primaryKeyField |-> InferPrimaryKey(PageSchema(tableId)),
     columns |-> ColumnsOf(PageSchema(tableId))]

NoPageDetails == [id |-> NoTable, primaryKeyField |-> JUndef, columns |-> <<>>]

\* result.entities of getFlowsDatatableRows for each table
PlatformRows(tableId) ==
    IF tableId = "t1"
    THEN <<[n \in {<<"a">>, <<"b">>} |-> IF n = <<"a">> THEN JStr(<<"a">>) ELSE JNum(5)]>>
    ELSE <<[n \in {<<"b">>} |-> JStr(<<"b">>)]>>

NoPageRows == [of |-> NoTable, entities |-> <<>>]
NoEditedRow == [set |-> FALSE, row |-> <<>>]

\* what an input of the edit dialog hands to handleInputChange: a numeric
\* input gives null for the empty text and Number(text) otherwise, a text
\* input gives the text
EditInputs(colType) ==
    IF colType \in {"integer", "number"}
    THEN {JNull, JNaN, JNum(7)}
    ELSE {JStr(<<>>), JStr(<<"b">>)}

CoerceForSubmit_KeepNaN(value) ==
    IF value.t = "undefined" THEN JNull ELSE value

\* the branches of handleSaveEdit on one field value
CoerceForSubmit(value) ==
    IF value.t = "undefined" THEN JNull
    ELSE IF value.t = "number" /\ value = JNaN THEN JNull
    ELSE value

\* payloadForUpdate of handleSaveEdit: one entry per schema property
PayloadForUpdate(rowData, schemaProperties) ==
    [keyInSchema \in DOMAIN schemaProperties |->
        CoerceForSubmit(Field(rowData, keyInSchema))]

\* JSON.parse(JSON.stringify(rowData)): undefined members are dropped and
\* NaN is written as null
JsonRoundTrip(rowData) ==
    [name \in {n \in DOMAIN rowData : rowData[n].t # "undefined"} |->
        IF rowData[name] = JNaN THEN JNull ELSE rowData[name]]

NoRowWrite ==
    [at |-> "none", table |-> NoTable, rowId |-> <<>>, schemaOf |-> NoTable,
     payload |-> <<>>, body |-> <<>>]

(***************************************************************************)
(* Division change: values                                                 *)
(***************************************************************************)
\* division of a user or queue as the platform reports it: id and name, each
\* possibly missing
DivisionRefs ==
    {[id |-> "div-1", name |-> "Home"],
     [id |-> "div-1", name |-> Undefined],
     [id |-> Undefined, name |-> Undefined]}

NewDivisions == {"div-2", "div-3"}

NoDivisionCall == [userId |-> NoUser, divisionId |-> Undefined]
NoCurrentUser == [answered |-> FALSE, version |-> JUndef]
NoDivisionOut == [kind |-> "none", divisionId |-> Undefined, divisionName |-> Undefined]
DivisionThrown == [kind |-> "error", divisionId |-> Undefined, divisionName |-> Undefined]

UpdateBody_FirstVersion(divisionId, user) ==
    [divisionId |-> divisionId, version |-> JNum(1)]

\* updateBody of updateUserDivision
UpdateBody(divisionId, user) ==
    [divisionId |-> divisionId, version |-> user.version]

\* the UserStatus record updateUserDivision returns for the patched user
PatchedUser(division) ==
    [kind |-> "user",
     divisionId |-> OrElse(division.id, "N/A"),
     divisionName |-> OrElse(division.name, "N/A")]

\* a fresh process: any deployment environment, empty credential slot
GateInit ==
    /\ env \in [clientId : EnvIds, clientSecret : EnvSecrets, region : EnvRegions]
    /\ accessToken = 0
    /\ exchanges = 0
    /\ pc = [c \in Callers |-> "idle"]
    /\ result = [c \in Callers |-> "none"]
    /\ held = [c \in Callers |-> 0]
    /\ ticket = [c \in Callers |-> 0]
    /\ mapFn = "none"
    /\ mapIn = <<JUndef, JUndef>>
    /\ mapOut = "none"
    /\ schema = NoSchema
    /\ pageDetails = NoDetails
    /\ call = NoCall
    /\ tpc = "idle"
    /\ net = <<>>
    /\ reply = NoReply
    /\ outcome = NoOutcome
    /\ platformSkills = [u \in Users |-> NoSkills]
    /\ selectedUserId = NoUser
    /\ currentUserSkills = NoSkills
    /\ modifiedSkills = NoSkills
    /\ fetches = {}
    /\ saving = NoSave
    /\ lastPut = NoSave
    /\ putCount = 0
    /\ qpc = "idle"
    /\ basicQueues = <<>>
    /\ observationResponse = NoObservations
    /\ queuesOut = NoQueuesOut
    /\ epc = "idle"
    /\ edgeData = <<JUndef, JUndef>>
    /\ metricsResponse = <<>>
    /\ edgeOut = NoEdgeOut
    /\ upc = "idle"
    /\ userResponse = NoUserResponse
    /\ usersOut = NoUsersOut
    /\ cpc = "idle"
    /\ conversationsResponse = NoConversationsResponse
    /\ conversationsOut = NoConversationsOut
    /\ selectedTableId = NoTable
    /\ dataTableDetails = NoPageDetails
    /\ dataTableRows = NoPageRows
    /\ loads = {}
    /\ editingRowId = JNull
    /\ editedRowData = NoEditedRow
    /\ rowWrite = NoRowWrite
    /\ dpc = "idle"
    /\ userVersion = 1
    /\ currentUser = NoCurrentUser
    /\ patches = <<>>
    /\ patchReply = "none"
    /\ divisionOut = NoDivisionOut
    /\ divisionCall = NoDivisionCall
    /\ edgeFailure = "none"

\* The synchronous part of getAuthenticatedClient, up to its first await.
GateCall(c) ==
    /\ pc[c] = "idle"
    /\ IF ConfigMissing
       THEN /\ pc' = [pc EXCEPT ![c] = "threw"]
            /\ result' = [result EXCEPT ![c] = "NotConfigured"]
            /\ UNCHANGED <<accessToken, exchanges, held, ticket>>
       ELSE IF ~RegionHostKnown
       THEN /\ pc' = [pc EXCEPT ![c] = "threw"]
            /\ result' = [result EXCEPT ![c] = "InvalidRegion"]
            /\ UNCHANGED <<accessToken, exchanges, held, ticket>>
       ELSE IF ~HasAccessToken
       THEN /\ exchanges < MaxExchanges
            /\ exchanges' = exchanges + 1
            /\ pc' = [pc EXCEPT ![c] = "awaitLogin"]
            /\ ticket' = [ticket EXCEPT ![c] = exchanges + 1]
            /\ result' = [result EXCEPT ![c] = "none"]
            /\ UNCHANGED <<accessToken, held>>
       ELSE /\ pc' = [pc EXCEPT ![c] = "returned"]
            /\ result' = [result EXCEPT ![c] = "client"]
            /\ held' = [held EXCEPT ![c] = accessToken]
            /\ UNCHANGED <<accessToken, exchanges, ticket>>
    /\ UNCHANGED env

LoginResolve_KeepFirst(c) ==
    /\ pc[c] = "awaitLogin"
    /\ accessToken' = IF accessToken = 0 THEN ticket[c] ELSE accessToken
    /\ held' = [held EXCEPT ![c] = accessToken']
    /\ ticket' = [ticket EXCEPT ![c] = 0]
    /\ pc' = [pc EXCEPT ![c] = "returned"]
    /\ result' = [result EXCEPT ![c] = "client"]
    /\ UNCHANGED <<env, exchanges>>

LoginResolve_NoStore(c) ==
    /\ pc[c] = "awaitLogin"
    /\ held' = [held EXCEPT ![c] = ticket[c]]
    /\ ticket' = [ticket EXCEPT ![c] = 0]
    /\ pc' = [pc EXCEPT ![c] = "returned"]
    /\ result' = [result EXCEPT ![c] = "client"]
    /\ UNCHANGED <<env, accessToken, exchanges>>

\* loginClientCredentialsGrant resolves: the SDK has stored the new token.
LoginResolve(c) ==
    /\ pc[c] = "awaitLogin"
    /\ accessToken' = ticket[c]
    /\ held' = [held EXCEPT ![c] = ticket[c]]
    /\ ticket' = [ticket EXCEPT ![c] = 0]
    /\ pc' = [pc EXCEPT ![c] = "returned"]
    /\ result' = [result EXCEPT ![c] = "client"]
    /\ UNCHANGED <<env, exchanges>>

LoginReject_Stores(c) ==
    /\ pc[c] = "awaitLogin"
    /\ \E rejection \in AuthRejections :
          result' = [result EXCEPT ![c] = AuthErrorMessage(rejection)]
    /\ accessToken' = ticket[c]
    /\ pc' = [pc EXCEPT ![c] = "threw"]
    /\ ticket' = [ticket EXCEPT ![c] = 0]
    /\ UNCHANGED <<env, exchanges, held>>

\* loginClientCredentialsGrant rejects: the catch block rethrows.
LoginReject(c) ==
    /\ pc[c] = "awaitLogin"
    /\ \E rejection \in AuthRejections :
          result' = [result EXCEPT ![c] = AuthErrorMessage(rejection)]
    /\ pc' = [pc EXCEPT ![c] = "threw"]
    /\ ticket' = [ticket EXCEPT ![c] = 0]
    /\ UNCHANGED <<env, accessToken, exchanges, held>>

\* The caller's operation ends; the same caller may call the gate again.
GateDone(c) ==
    /\ pc[c] \in {"returned", "threw"}
    /\ pc' = [pc EXCEPT ![c] = "idle"]
    /\ result' = [result EXCEPT ![c] = "none"]
    /\ held' = [held EXCEPT ![c] = 0]
    /\ UNCHANGED <<env, accessToken, exchanges, ticket>>

GateNext ==
    \/ \E c \in Callers : GateCall(c) /\ UNCHANGED <<mapperVars, tableVars, skillVars, readVars, pageVars, divisionVars>>
    \/ \E c \in Callers : LoginResolve(c) /\ UNCHANGED <<mapperVars, tableVars, skillVars, readVars, pageVars, divisionVars>>
    \/ \E c \in Callers : LoginReject(c) /\ UNCHANGED <<mapperVars, tableVars, skillVars, readVars, pageVars, divisionVars>>
    \/ \E c \in Callers : GateDone(c) /\ UNCHANGED <<mapperVars, tableVars, skillVars, readVars, pageVars, divisionVars>>

SpecGate == GateInit /\ [][GateNext]_vars

\* a configured process that has not used the session gate; no mapper has run
MapperInit ==
    /\ env = [clientId |-> "client-id", clientSecret |-> "client-secret", region |-> "us_east_1"]
    /\ accessToken = 0
    /\ exchanges = 0
    /\ pc = [c \in Callers |-> "idle"]
    /\ result = [c \in Callers |-> "none"]
    /\ held = [c \in Callers |-> 0]
    /\ ticket = [c \in Callers |-> 0]
    /\ mapFn = "none"
    /\ mapIn = <<JUndef, JUndef>>
    /\ mapOut = "none"
    /\ schema = NoSchema
    /\ pageDetails = NoDetails
    /\ call = NoCall
    /\ tpc = "idle"
    /\ net = <<>>
    /\ reply = NoReply
    /\ outcome = NoOutcome
    /\ platformSkills = [u \in Users |-> NoSkills]
    /\ selectedUserId = NoUser
    /\ currentUserSkills = NoSkills
    /\ modifiedSkills = NoSkills
    /\ fetches = {}
    /\ saving = NoSave
    /\ lastPut = NoSave
    /\ putCount = 0
    /\ qpc = "idle"
    /\ basicQueues = <<>>
    /\ observationResponse = NoObservations
    /\ queuesOut = NoQueuesOut
    /\ epc = "idle"
    /\ edgeData = <<JUndef, JUndef>>
    /\ metricsResponse = <<>>
    /\ edgeOut = NoEdgeOut
    /\ upc = "idle"
    /\ userResponse = NoUserResponse
    /\ usersOut = NoUsersOut
    /\ cpc = "idle"
    /\ conversationsResponse = NoConversationsResponse
    /\ conversationsOut = NoConversationsOut
    /\ selectedTableId = NoTable
    /\ dataTableDetails = NoPageDetails
    /\ dataTableRows = NoPageRows
    /\ loads = {}
    /\ editingRowId = JNull
    /\ editedRowData = NoEditedRow
    /\ rowWrite = NoRowWrite
    /\ dpc = "idle"
    /\ userVersion = 1
    /\ currentUser = NoCurrentUser
    /\ patches = <<>>
    /\ patchReply = "none"
    /\ divisionOut = NoDivisionOut
    /\ divisionCall = NoDivisionCall
    /\ edgeFailure = "none"

MapperNext ==
    \/ MapUserStatus /\ UNCHANGED <<gateVars, tableVars, skillVars, readVars, pageVars, divisionVars>>
    \/ MapEdgeStatus /\ UNCHANGED <<gateVars, tableVars, skillVars, readVars, pageVars, divisionVars>>

SpecMapper == MapperInit /\ [][MapperNext]_vars

(***************************************************************************)
(* Data-table server actions and the create dialog of the page             *)
(***************************************************************************)
\* rowKey === undefined || rowKey === null || String(rowKey).trim() === ''
EmptyKey_NoTrim(rowKey) ==
    rowKey.t = "undefined" \/ rowKey.t = "null" \/ StringOf(rowKey) = <<>>

EmptyKey(rowKey) ==
    rowKey.t = "undefined" \/ rowKey.t = "null" \/ Trim(StringOf(rowKey)) = <<>>

\* the catch block of addDataTableRow
AddFailure(err, rowKey) ==
    IF err.detail THEN Failure("AddFailed")
    ELSE IF err.code = KeyConflict THEN [kind |-> "DuplicateKey", key |-> StringOf(rowKey)]
    ELSE Failure("AddFailed")

\* A server action starts: `await getAuthenticatedClient()` runs the gate up
\* to its first await.
ServerStart(kind, origin, rowId, row) ==
    /\ tpc = "idle"
    /\ GateCall(TableCaller)
    /\ call' = [kind |-> kind, origin |-> origin, rowId |-> rowId, row |-> row]
    /\ net' = IF pc'[TableCaller] = "awaitLogin" THEN <<"login">> ELSE <<>>
    /\ tpc' = "gate"
    /\ reply' = NoReply
    /\ outcome' = NoOutcome
    /\ UNCHANGED <<schema, pageDetails>>

\* fetchDataForTable: the page loads the details of the selected table
LoadDetails == ServerStart("details", "page", <<>>, NoRow)

\* addDataTableRow(dataTableId, rowData) invoked as a server action
AddRow == \E row \in Rows : ServerStart("add", "direct", <<>>, row)

\* updateDataTableRow(dataTableId, rowId, rowData)
UpdateRow == \E rowId \in RowIds, row \in Rows : ServerStart("update", "direct", rowId, row)

\* deleteDataTableRow(dataTableId, rowId)
DeleteRow == \E rowId \in RowIds : ServerStart("delete", "direct", rowId, NoRow)

\* payload built by handleSaveCreate: one entry per schema property,
\* undefined replaced by null
CreatePayload(newRowData, columns) ==
    [f \in PropNames |->
        IF f \in DOMAIN columns
        THEN (IF newRowData[f].t = "undefined" THEN JNull ELSE newRowData[f])
        ELSE JUndef]

\* newRowData[pkField] === undefined || === null || String(...).trim() === ''
PrimaryKeyRequired(newRowData, pkField) == EmptyKey(Field(newRowData, pkField))

\* handleSaveCreate: the create dialog is saved with the row the user typed
SaveCreate ==
    \E newRowData \in Rows :
        /\ tpc = "idle"
        /\ pageDetails.loaded
        /\ IF JFalsy(pageDetails.primaryKeyField)
           THEN /\ outcome' = Failure("PageMissingData")
                /\ call' = [kind |-> "create", origin |-> "page", rowId |-> <<>>, row |-> newRowData]
                /\ net' = <<>>
                /\ tpc' = "done"
                /\ reply' = NoReply
                /\ UNCHANGED <<schema, pageDetails, gateVars, pageVars, divisionVars>>
           ELSE IF PrimaryKeyRequired(newRowData, pageDetails.primaryKeyField.s)
           THEN /\ outcome' = Failure("PagePrimaryKeyRequired")
                /\ call' = [kind |-> "create", origin |-> "page", rowId |-> <<>>, row |-> newRowData]
                /\ net' = <<>>
                /\ tpc' = "done"
                /\ reply' = NoReply
                /\ UNCHANGED <<schema, pageDetails, gateVars, pageVars, divisionVars>>
           ELSE ServerStart("add", "page", <<>>, CreatePayload(newRowData, pageDetails.columns))

\* the pending token exchange of the server action resolves
TableLoginResolve ==
    /\ tpc = "gate"
    /\ LoginResolve(TableCaller)
    /\ UNCHANGED tableVars

\* the pending token exchange rejects: the server action throws
TableLoginReject ==
    /\ tpc = "gate"
    /\ LoginReject(TableCaller)
    /\ outcome' = Failure(result'[TableCaller])
    /\ tpc' = "done"
    /\ pageDetails' = IF call.kind = "details" THEN NoDetails ELSE pageDetails
    /\ UNCHANGED <<schema, call, net, reply>>

\* the gate has returned (or thrown): the server action issues its first
\* platform call
AfterGate ==
    /\ tpc = "gate"
    /\ pc[TableCaller] \in {"returned", "threw"}
    /\ GateDone(TableCaller)
    /\ IF pc[TableCaller] = "threw"
       THEN /\ outcome' = Failure(result[TableCaller])
            /\ tpc' = "done"
            /\ pageDetails' = IF call.kind = "details" THEN NoDetails ELSE pageDetails
            /\ UNCHANGED net
       ELSE /\ pageDetails' = pageDetails
            /\ outcome' = outcome
            /\ IF call.kind \in {"details", "add"}
               THEN net' = Append(net, "getFlowsDatatable") /\ tpc' = "fetch"
               ELSE IF call.kind = "update"
               THEN net' = Append(net, "putFlowsDatatableRow") /\ tpc' = "write"
               ELSE net' = Append(net, "deleteFlowsDatatableRow") /\ tpc' = "write"
    /\ UNCHANGED <<schema, call, reply>>

\* getFlowsDatatable answers: getDataTableDetails returns; addDataTableRow
\* validates the row against the inferred key and posts it
FetchResolve ==
    /\ tpc = "fetch"
    /\ LET dtDetails == DetailsOf(schema) IN
       IF call.kind = "details"
       THEN /\ pageDetails' = dtDetails
            /\ outcome' = [kind |-> "ok", key |-> <<>>]
            /\ tpc' = "idle"
            /\ UNCHANGED net
       ELSE /\ pageDetails' = pageDetails
            /\ IF JFalsy(dtDetails.primaryKeyField)
               THEN outcome' = Failure("NoPrimaryKey") /\ tpc' = "done" /\ UNCHANGED net
               ELSE IF EmptyKey(Field(call.row, dtDetails.primaryKeyField.s))
               THEN outcome' = Failure("KeyMustHaveValue") /\ tpc' = "done" /\ UNCHANGED net
               ELSE /\ net' = Append(net, "postFlowsDatatableRows")
                    /\ tpc' = "write"
                    /\ outcome' = outcome
    /\ UNCHANGED <<schema, call, reply, gateVars>>

\* getFlowsDatatable fails: getDataTableDetails throws
FetchReject ==
    /\ tpc = "fetch"
    /\ outcome' = Failure("DetailsFailed")
    /\ pageDetails' = IF call.kind = "details" THEN NoDetails ELSE pageDetails
    /\ tpc' = "done"
    /\ UNCHANGED <<schema, call, net, reply, gateVars>>

\* the platform accepts the row write
WriteResolve ==
    /\ tpc = "write"
    /\ outcome' = [kind |-> "ok", key |-> <<>>]
    /\ tpc' = "done"
    /\ UNCHANGED <<schema, pageDetails, call, net, reply, gateVars>>

\* the platform rejects the row write: the catch block builds the failure
WriteReject ==
    \E err \in ErrorReplies :
        /\ tpc = "write"
        /\ reply' = err
        /\ outcome' =
              IF call.kind = "add"
              THEN AddFailure(err, Field(call.row, DetailsOf(schema).primaryKeyField.s))
              ELSE IF call.kind = "update" THEN Failure("UpdateFailed")
              ELSE Failure("DeleteFailed")
        /\ tpc' = "done"
        /\ UNCHANGED <<schema, pageDetails, call, net, gateVars>>

\* a configured process with an empty credential slot; one of the row schemas
TableInit ==
    /\ env = [clientId |-> "client-id", clientSecret |-> "client-secret", region |-> "us_east_1"]
    /\ accessToken = 0
    /\ exchanges = 0
    /\ pc = [c \in Callers |-> "idle"]
    /\ result = [c \in Callers |-> "none"]
    /\ held = [c \in Callers |-> 0]
    /\ ticket = [c \in Callers |-> 0]
    /\ mapFn = "none"
    /\ mapIn = <<JUndef, JUndef>>
    /\ mapOut = "none"
    /\ schema \in RowSchemas
    /\ pageDetails = NoDetails
    /\ call = NoCall
    /\ tpc = "idle"
    /\ net = <<>>
    /\ reply = NoReply
    /\ outcome = NoOutcome
    /\ platformSkills = [u \in Users |-> NoSkills]
    /\ selectedUserId = NoUser
    /\ currentUserSkills = NoSkills
    /\ modifiedSkills = NoSkills
    /\ fetches = {}
    /\ saving = NoSave
    /\ lastPut = NoSave
    /\ putCount = 0
    /\ qpc = "idle"
    /\ basicQueues = <<>>
    /\ observationResponse = NoObservations
    /\ queuesOut = NoQueuesOut
    /\ epc = "idle"
    /\ edgeData = <<JUndef, JUndef>>
    /\ metricsResponse = <<>>
    /\ edgeOut = NoEdgeOut
    /\ upc = "idle"
    /\ userResponse = NoUserResponse
    /\ usersOut = NoUsersOut
    /\ cpc = "idle"
    /\ conversationsResponse = NoConversationsResponse
    /\ conversationsOut = NoConversationsOut
    /\ selectedTableId = NoTable
    /\ dataTableDetails = NoPageDetails
    /\ dataTableRows = NoPageRows
    /\ loads = {}
    /\ editingRowId = JNull
    /\ editedRowData = NoEditedRow
    /\ rowWrite = NoRowWrite
    /\ dpc = "idle"
    /\ userVersion = 1
    /\ currentUser = NoCurrentUser
    /\ patches = <<>>
    /\ patchReply = "none"
    /\ divisionOut = NoDivisionOut
    /\ divisionCall = NoDivisionCall
    /\ edgeFailure = "none"

TableNext ==
    \/ LoadDetails /\ UNCHANGED <<mapperVars, skillVars, readVars, pageVars, divisionVars>>
    \/ AddRow /\ UNCHANGED <<mapperVars, skillVars, readVars, pageVars, divisionVars>>
    \/ UpdateRow /\ UNCHANGED <<mapperVars, skillVars, readVars, pageVars, divisionVars>>
    \/ DeleteRow /\ UNCHANGED <<mapperVars, skillVars, readVars, pageVars, divisionVars>>
    \/ SaveCreate /\ UNCHANGED <<mapperVars, skillVars, readVars, pageVars, divisionVars>>
    \/ TableLoginResolve /\ UNCHANGED <<mapperVars, skillVars, readVars, pageVars, divisionVars>>
    \/ TableLoginReject /\ UNCHANGED <<mapperVars, skillVars, readVars, pageVars, divisionVars>>
    \/ AfterGate /\ UNCHANGED <<mapperVars, skillVars, readVars, pageVars, divisionVars>>
    \/ FetchResolve /\ UNCHANGED <<mapperVars, skillVars, readVars, pageVars, divisionVars>>
    \/ FetchReject /\ UNCHANGED <<mapperVars, skillVars, readVars, pageVars, divisionVars>>
    \/ WriteResolve /\ UNCHANGED <<mapperVars, skillVars, readVars, pageVars, divisionVars>>
    \/ WriteReject /\ UNCHANGED <<mapperVars, skillVars, readVars, pageVars, divisionVars>>

SpecTable == TableInit /\ [][TableNext]_vars

\* a configured process with an empty credential slot; any table schema
SchemaInit ==
    /\ env = [clientId |-> "client-id", clientSecret |-> "client-secret", region |-> "us_east_1"]
    /\ accessToken = 0
    /\ exchanges = 0
    /\ pc = [c \in Callers |-> "idle"]
    /\ result = [c \in Callers |-> "none"]
    /\ held = [c \in Callers |-> 0]
    /\ ticket = [c \in Callers |-> 0]
    /\ mapFn = "none"
    /\ mapIn = <<JUndef, JUndef>>
    /\ mapOut = "none"
    /\ schema \in Schemas \cup ColumnSchemas
    /\ pageDetails = NoDetails
    /\ call = NoCall
    /\ tpc = "idle"
    /\ net = <<>>
    /\ reply = NoReply
    /\ outcome = NoOutcome
    /\ platformSkills = [u \in Users |-> NoSkills]
    /\ selectedUserId = NoUser
    /\ currentUserSkills = NoSkills
    /\ modifiedSkills = NoSkills
    /\ fetches = {}
    /\ saving = NoSave
    /\ lastPut = NoSave
    /\ putCount = 0
    /\ qpc = "idle"
    /\ basicQueues = <<>>
    /\ observationResponse = NoObservations
    /\ queuesOut = NoQueuesOut
    /\ epc = "idle"
    /\ edgeData = <<JUndef, JUndef>>
    /\ metricsResponse = <<>>
    /\ edgeOut = NoEdgeOut
    /\ upc = "idle"
    /\ userResponse = NoUserResponse
    /\ usersOut = NoUsersOut
    /\ cpc = "idle"
    /\ conversationsResponse = NoConversationsResponse
    /\ conversationsOut = NoConversationsOut
    /\ selectedTableId = NoTable
    /\ dataTableDetails = NoPageDetails
    /\ dataTableRows = NoPageRows
    /\ loads = {}
    /\ editingRowId = JNull
    /\ editedRowData = NoEditedRow
    /\ rowWrite = NoRowWrite
    /\ dpc = "idle"
    /\ userVersion = 1
    /\ currentUser = NoCurrentUser
    /\ patches = <<>>
    /\ patchReply = "none"
    /\ divisionOut = NoDivisionOut
    /\ divisionCall = NoDivisionCall
    /\ edgeFailure = "none"

\* the page loads the details of the selected table, nothing else
SchemaNext ==
    \/ LoadDetails /\ UNCHANGED <<mapperVars, skillVars, readVars, pageVars, divisionVars>>
    \/ TableLoginResolve /\ UNCHANGED <<mapperVars, skillVars, readVars, pageVars, divisionVars>>
    \/ TableLoginReject /\ UNCHANGED <<mapperVars, skillVars, readVars, pageVars, divisionVars>>
    \/ AfterGate /\ UNCHANGED <<mapperVars, skillVars, readVars, pageVars, divisionVars>>
    \/ FetchResolve /\ UNCHANGED <<mapperVars, skillVars, readVars, pageVars, divisionVars>>
    \/ FetchReject /\ UNCHANGED <<mapperVars, skillVars, readVars, pageVars, divisionVars>>

SpecSchema == SchemaInit /\ [][SchemaNext]_vars

(***************************************************************************)
(* Skills page                                                             *)
(***************************************************************************)
isLoadingUserSkills == fetches # {}
isUpdatingUserSkills == saving.active

\* the token the credential slot holds once a token exchange issued by the
\* gate has resolved
TokenAfterLogin == IF HasAccessToken THEN accessToken ELSE exchanges

\* setSelectedUserId(u); the effect on selectedUserId starts getUserSkills(u),
\* whose gate issues a token exchange when the slot is empty
SelectUser(u) ==
    /\ u # selectedUserId
    /\ selectedUserId' = u
    /\ fetches' = fetches \cup {u}
    /\ IF HasAccessToken
       THEN UNCHANGED exchanges
       ELSE /\ exchanges < MaxExchanges
            /\ exchanges' = exchanges + 1
    /\ UNCHANGED <<env, accessToken, pc, result, held, ticket>>
    /\ UNCHANGED <<platformSkills, currentUserSkills, modifiedSkills, saving, lastPut, putCount>>

\* handleDivisionChange drops the selection; the effect clears both sets
DeselectUser ==
    /\ selectedUserId # NoUser
    /\ selectedUserId' = NoUser
    /\ currentUserSkills' = NoSkills
    /\ modifiedSkills' = NoSkills
    /\ UNCHANGED gateVars
    /\ UNCHANGED <<platformSkills, fetches, saving, lastPut, putCount>>

\* getUserSkills(u) answers: both sets are replaced by the fetched skills
SkillsFetched(u) ==
    /\ u \in fetches
    /\ fetches' = fetches \ {u}
    /\ accessToken' = TokenAfterLogin
    /\ currentUserSkills' = UserSkillsOf(platformSkills[u])
    /\ modifiedSkills' = UserSkillsOf(platformSkills[u])
    /\ UNCHANGED <<env, exchanges, pc, result, held, ticket>>
    /\ UNCHANGED <<platformSkills, selectedUserId, saving, lastPut, putCount>>

\* getUserSkills(u) fails, in its gate or in getUserRoutingskills: both sets
\* are emptied
SkillsFetchFailed(u) ==
    /\ u \in fetches
    /\ fetches' = fetches \ {u}
    /\ \E token \in {accessToken, TokenAfterLogin} : accessToken' = token
    /\ currentUserSkills' = NoSkills
    /\ modifiedSkills' = NoSkills
    /\ UNCHANGED <<env, exchanges, pc, result, held, ticket>>
    /\ UNCHANGED <<platformSkills, selectedUserId, saving, lastPut, putCount>>

\* handleProficiencyChange(skillId, parseInt(e.target.value, 10))
ProficiencyChange(skillId, proficiency) ==
    /\ selectedUserId # NoUser
    /\ ~isLoadingUserSkills
    /\ ~isUpdatingUserSkills
    /\ skillId \in DOMAIN modifiedSkills
    /\ modifiedSkills' = MapSet(modifiedSkills, skillId, ClampProficiency(proficiency))
    /\ UNCHANGED gateVars
    /\ UNCHANGED <<platformSkills, selectedUserId, currentUserSkills, fetches, saving, lastPut, putCount>>

\* handleAddSkill(skillId)
AddSkill(skillId) ==
    /\ selectedUserId # NoUser
    /\ ~isUpdatingUserSkills
    /\ skillId \notin DOMAIN modifiedSkills
    /\ modifiedSkills' = MapSet(modifiedSkills, skillId, JNum(1))
    /\ UNCHANGED gateVars
    /\ UNCHANGED <<platformSkills, selectedUserId, currentUserSkills, fetches, saving, lastPut, putCount>>

\* handleRemoveSkill(skillId)
RemoveSkill(skillId) ==
    /\ selectedUserId # NoUser
    /\ ~isLoadingUserSkills
    /\ ~isUpdatingUserSkills
    /\ skillId \in DOMAIN modifiedSkills
    /\ modifiedSkills' = MapDelete(modifiedSkills, skillId)
    /\ UNCHANGED gateVars
    /\ UNCHANGED <<platformSkills, selectedUserId, currentUserSkills, fetches, saving, lastPut, putCount>>

ReplaceBody_ChangedOnly(working) ==
    [k \in {i \in DOMAIN working :
               i \notin DOMAIN currentUserSkills \/ currentUserSkills[i] # working[i]}
        |-> working[k]]

\* skillsToUpdate of handleSaveSkills, then apiFormattedSkills of updateUserSkills
ReplaceBody(working) == [k \in DOMAIN working |-> working[k]]

\* usersApi.putUserRoutingskills(userId, apiFormattedSkills) is issued
PutIssued(userId, body) ==
    /\ putCount' = putCount + 1
    /\ lastPut' = [active |-> TRUE, at |-> "put", user |-> userId, body |-> body, answer |-> NoSkills]

\* handleSaveSkills: updateUserSkills(selectedUserId, skillsToUpdate) runs its
\* gate; with a cached credential it issues putUserRoutingskills at once
SaveSkills ==
    /\ selectedUserId # NoUser
    /\ ~isLoadingUserSkills
    /\ ~isUpdatingUserSkills
    /\ putCount < MaxSaves
    /\ LET body == ReplaceBody(modifiedSkills)
           started(at) == [active |-> TRUE, at |-> at, user |-> selectedUserId,
                           body |-> body, answer |-> NoSkills]
       IN  IF ConfigMissing \/ ~RegionHostKnown
           THEN /\ saving' = started("refused")
                /\ UNCHANGED <<exchanges, lastPut, putCount>>
           ELSE IF ~HasAccessToken
           THEN /\ exchanges < MaxExchanges
                /\ exchanges' = exchanges + 1
                /\ saving' = started("login")
                /\ UNCHANGED <<lastPut, putCount>>
           ELSE /\ saving' = started("put")
                /\ PutIssued(selectedUserId, body)
                /\ UNCHANGED exchanges
    /\ UNCHANGED <<env, accessToken, pc, result, held, ticket>>
    /\ UNCHANGED <<platformSkills, selectedUserId, currentUserSkills, modifiedSkills, fetches>>

\* the token exchange of the save's gate resolves: putUserRoutingskills is issued
SaveLoginResolve ==
    /\ saving.active
    /\ saving.at = "login"
    /\ accessToken' = exchanges
    /\ saving' = [saving EXCEPT !.at = "put"]
    /\ PutIssued(saving.user, saving.body)
    /\ UNCHANGED <<env, exchanges, pc, result, held, ticket>>
    /\ UNCHANGED <<platformSkills, selectedUserId, currentUserSkills, modifiedSkills, fetches>>

\* the token exchange of the save's gate rejects: updateUserSkills throws
SaveLoginReject ==
    /\ saving.active
    /\ saving.at = "login"
    /\ saving' = [saving EXCEPT !.at = "refused"]
    /\ UNCHANGED gateVars
    /\ UNCHANGED <<platformSkills, selectedUserId, currentUserSkills, modifiedSkills,
                   fetches, lastPut, putCount>>

SavedWorkingSet_KeepLocal(updatedSkills) ==
    [k \in DOMAIN updatedSkills |->
        IF k \in DOMAIN modifiedSkills THEN modifiedSkills[k] ELSE updatedSkills[k]]

\* newModifiedSkills of handleSaveSkills: skill.id -> skill.proficiency
SavedWorkingSet(updatedSkills) == [k \in DOMAIN updatedSkills |-> updatedSkills[k]]

\* the platform accepts the replace and answers with the user's skills;
\* updateUserSkills returns them normalised and the page adopts them
SaveSucceeded ==
    /\ saving.active
    /\ saving.at = "put"
    /\ \A k \in DOMAIN saving.body : saving.body[k] # JNaN /\ saving.body[k].n \in 0..5
    /\ \E entities \in ReplaceAnswers(saving.body) :
          LET updatedSkills == UserSkillsOf(entities)
          IN  /\ platformSkills' = [platformSkills EXCEPT ![saving.user] = entities]
              /\ currentUserSkills' = updatedSkills
              /\ modifiedSkills' = SavedWorkingSet(updatedSkills)
              /\ saving' = [saving EXCEPT !.active = FALSE, !.at = "saved", !.answer = updatedSkills]
    /\ UNCHANGED gateVars
    /\ UNCHANGED <<selectedUserId, fetches, lastPut, putCount>>

\* updateUserSkills throws (its gate refused, or the platform rejected the
\* replace): only a toast
SaveFailed ==
    /\ saving.active
    /\ saving.at \in {"put", "refused"}
    /\ saving' = [saving EXCEPT !.active = FALSE, !.at = "failed"]
    /\ UNCHANGED gateVars
    /\ UNCHANGED <<platformSkills, selectedUserId, currentUserSkills, modifiedSkills, fetches, lastPut, putCount>>

\* a configured process, with or without a cached credential; the platform
\* holds some skills for each user
SkillsInit ==
    /\ env = [clientId |-> "client-id", clientSecret |-> "client-secret", region |-> "us_east_1"]
    /\ accessToken \in {0, 1}
    /\ exchanges = accessToken
    /\ pc = [c \in Callers |-> "idle"]
    /\ result = [c \in Callers |-> "none"]
    /\ held = [c \in Callers |-> 0]
    /\ ticket = [c \in Callers |-> 0]
    /\ mapFn = "none"
    /\ mapIn = <<JUndef, JUndef>>
    /\ mapOut = "none"
    /\ schema = NoSchema
    /\ pageDetails = NoDetails
    /\ call = NoCall
    /\ tpc = "idle"
    /\ net = <<>>
    /\ reply = NoReply
    /\ outcome = NoOutcome
    /\ platformSkills \in PlatformConfigs
    /\ selectedUserId = NoUser
    /\ currentUserSkills = NoSkills
    /\ modifiedSkills = NoSkills
    /\ fetches = {}
    /\ saving = NoSave
    /\ lastPut = NoSave
    /\ putCount = 0
    /\ qpc = "idle"
    /\ basicQueues = <<>>
    /\ observationResponse = NoObservations
    /\ queuesOut = NoQueuesOut
    /\ epc = "idle"
    /\ edgeData = <<JUndef, JUndef>>
    /\ metricsResponse = <<>>
    /\ edgeOut = NoEdgeOut
    /\ upc = "idle"
    /\ userResponse = NoUserResponse
    /\ usersOut = NoUsersOut
    /\ cpc = "idle"
    /\ conversationsResponse = NoConversationsResponse
    /\ conversationsOut = NoConversationsOut
    /\ selectedTableId = NoTable
    /\ dataTableDetails = NoPageDetails
    /\ dataTableRows = NoPageRows
    /\ loads = {}
    /\ editingRowId = JNull
    /\ editedRowData = NoEditedRow
    /\ rowWrite = NoRowWrite
    /\ dpc = "idle"
    /\ userVersion = 1
    /\ currentUser = NoCurrentUser
    /\ patches = <<>>
    /\ patchReply = "none"
    /\ divisionOut = NoDivisionOut
    /\ divisionCall = NoDivisionCall
    /\ edgeFailure = "none"

SkillsNext ==
    \/ \E u \in Users : SelectUser(u) /\ UNCHANGED <<mapperVars, tableVars, readVars, pageVars, divisionVars>>
    \/ DeselectUser /\ UNCHANGED <<mapperVars, tableVars, readVars, pageVars, divisionVars>>
    \/ \E u \in Users : SkillsFetched(u) /\ UNCHANGED <<mapperVars, tableVars, readVars, pageVars, divisionVars>>
    \/ \E u \in Users : SkillsFetchFailed(u) /\ UNCHANGED <<mapperVars, tableVars, readVars, pageVars, divisionVars>>
    \/ \E skillId \in SkillIds, proficiency \in TypedProfs :
          ProficiencyChange(skillId, proficiency) /\ UNCHANGED <<mapperVars, tableVars, readVars, pageVars, divisionVars>>
    \/ \E skillId \in SkillIds : AddSkill(skillId) /\ UNCHANGED <<mapperVars, tableVars, readVars, pageVars, divisionVars>>
    \/ \E skillId \in SkillIds : RemoveSkill(skillId) /\ UNCHANGED <<mapperVars, tableVars, readVars, pageVars, divisionVars>>
    \/ SaveSkills /\ UNCHANGED <<mapperVars, tableVars, readVars, pageVars, divisionVars>>
    \/ SaveLoginResolve /\ UNCHANGED <<mapperVars, tableVars, readVars, pageVars, divisionVars>>
    \/ SaveLoginReject /\ UNCHANGED <<mapperVars, tableVars, readVars, pageVars, divisionVars>>
    \/ SaveSucceeded /\ UNCHANGED <<mapperVars, tableVars, readVars, pageVars, divisionVars>>
    \/ SaveFailed /\ UNCHANGED <<mapperVars, tableVars, readVars, pageVars, divisionVars>>

SpecSkills == SkillsInit /\ [][SkillsNext]_vars

(***************************************************************************)
(* Queues with live gauges (getActiveQueues)                               *)
(***************************************************************************)
\* the session gate returns the shared client without awaiting
GatePasses == ~ConfigMissing /\ RegionHostKnown /\ HasAccessToken

\* mappedQueues as first built from basicQueues
MappedQueues == [i \in DOMAIN basicQueues |-> MappedQueue(basicQueues[i])]

\* getActiveQueues is called: getRoutingQueues is issued
GetActiveQueues ==
    /\ qpc = "idle"
    /\ GatePasses
    /\ qpc' = "queues"
    /\ UNCHANGED <<basicQueues, observationResponse, queuesOut>>

\* getRoutingQueues answers; an empty list is returned at once, otherwise
\* the observation query is issued
QueuesFetched ==
    /\ qpc = "queues"
    /\ \E entities \in BasicQueueLists :
          /\ basicQueues' = entities
          /\ IF Len(entities) = 0
             THEN qpc' = "done" /\ queuesOut' = QueuesReturned(<<>>)
             ELSE qpc' = "observations" /\ UNCHANGED queuesOut
    /\ UNCHANGED observationResponse

\* getRoutingQueues fails: getActiveQueues throws
QueuesFetchFailed ==
    /\ qpc = "queues"
    /\ qpc' = "done"
    /\ queuesOut' = QueuesThrown
    /\ UNCHANGED <<basicQueues, observationResponse>>

\* the observation query answers: its results are joined onto the queues
ObservationsAnswered ==
    /\ qpc = "observations"
    /\ \E response \in ObservationResponses :
          /\ observationResponse' = response
          /\ queuesOut' = QueuesReturned(SortByName(JoinObservations(MappedQueues, response)))
    /\ qpc' = "done"
    /\ UNCHANGED basicQueues

\* the observation query fails
ObservationsFailed ==
    /\ qpc = "observations"
    /\ observationResponse' = ObservationsRejected
    /\ queuesOut' = ObservationsFailureOutcome(MappedQueues)
    /\ qpc' = "done"
    /\ UNCHANGED basicQueues

\* an authenticated process that has not listed its queues yet
QueuesInit ==
    /\ env = [clientId |-> "client-id", clientSecret |-> "client-secret", region |-> "us_east_1"]
    /\ accessToken = 1
    /\ exchanges = 1
    /\ pc = [c \in Callers |-> "idle"]
    /\ result = [c \in Callers |-> "none"]
    /\ held = [c \in Callers |-> 0]
    /\ ticket = [c \in Callers |-> 0]
    /\ mapFn = "none"
    /\ mapIn = <<JUndef, JUndef>>
    /\ mapOut = "none"
    /\ schema = NoSchema
    /\ pageDetails = NoDetails
    /\ call = NoCall
    /\ tpc = "idle"
    /\ net = <<>>
    /\ reply = NoReply
    /\ outcome = NoOutcome
    /\ platformSkills = [u \in Users |-> NoSkills]
    /\ selectedUserId = NoUser
    /\ currentUserSkills = NoSkills
    /\ modifiedSkills = NoSkills
    /\ fetches = {}
    /\ saving = NoSave
    /\ lastPut = NoSave
    /\ putCount = 0
    /\ qpc = "idle"
    /\ basicQueues = <<>>
    /\ observationResponse = NoObservations
    /\ queuesOut = NoQueuesOut
    /\ epc = "idle"
    /\ edgeData = <<JUndef, JUndef>>
    /\ metricsResponse = <<>>
    /\ edgeOut = NoEdgeOut
    /\ upc = "idle"
    /\ userResponse = NoUserResponse
    /\ usersOut = NoUsersOut
    /\ cpc = "idle"
    /\ conversationsResponse = NoConversationsResponse
    /\ conversationsOut = NoConversationsOut
    /\ selectedTableId = NoTable
    /\ dataTableDetails = NoPageDetails
    /\ dataTableRows = NoPageRows
    /\ loads = {}
    /\ editingRowId = JNull
    /\ editedRowData = NoEditedRow
    /\ rowWrite = NoRowWrite
    /\ dpc = "idle"
    /\ userVersion = 1
    /\ currentUser = NoCurrentUser
    /\ patches = <<>>
    /\ patchReply = "none"
    /\ divisionOut = NoDivisionOut
    /\ divisionCall = NoDivisionCall
    /\ edgeFailure = "none"

QueuesNext ==
    \/ GetActiveQueues /\ UNCHANGED <<gateVars, mapperVars, tableVars, skillVars, edgeVars, userVars, convVars, pageVars, divisionVars>>
    \/ QueuesFetched /\ UNCHANGED <<gateVars, mapperVars, tableVars, skillVars, edgeVars, userVars, convVars, pageVars, divisionVars>>
    \/ QueuesFetchFailed /\ UNCHANGED <<gateVars, mapperVars, tableVars, skillVars, edgeVars, userVars, convVars, pageVars, divisionVars>>
    \/ ObservationsAnswered /\ UNCHANGED <<gateVars, mapperVars, tableVars, skillVars, edgeVars, userVars, convVars, pageVars, divisionVars>>
    \/ ObservationsFailed /\ UNCHANGED <<gateVars, mapperVars, tableVars, skillVars, edgeVars, userVars, convVars, pageVars, divisionVars>>

SpecQueues == QueuesInit /\ [][QueuesNext]_vars

(***************************************************************************)
(* Edge details (getEdgeDetails)                                           *)
(***************************************************************************)
\* getEdgeDetails is called: the edge and its metrics are requested together
GetEdgeDetails ==
    /\ epc = "idle"
    /\ GatePasses
    /\ epc' = "fetching"
    /\ UNCHANGED <<edgeData, metricsResponse, edgeOut, edgeFailure>>

\* both requests answer: the edge record with its processed metrics is returned
EdgeFetched ==
    /\ epc = "fetching"
    /\ \E data \in EdgeDatas, rawMetrics \in RawMetricLists :
          /\ edgeData' = data
          /\ metricsResponse' = rawMetrics
          /\ edgeOut' = [kind |-> "detail",
                         status |-> MapEdgeApiStatus(data[1], data[2]),
                         processedMetrics |-> ProcessedMetrics(rawMetrics)]
    /\ epc' = "done"
    /\ UNCHANGED edgeFailure

\* the edge request, the metrics request or both are rejected: Promise.all
\* rejects and getEdgeDetails throws, whatever the other request answered
EdgeFetchFailed ==
    /\ epc = "fetching"
    /\ \E failed \in {"edge", "metrics", "both"}, data \in EdgeDatas :
          /\ edgeFailure' = failed
          /\ edgeData' = IF failed = "metrics" THEN data ELSE edgeData
    /\ epc' = "done"
    /\ edgeOut' = EdgeOutcomeOnFailure(edgeFailure', edgeData')
    /\ UNCHANGED metricsResponse

\* an authenticated process that has not read an edge yet
EdgeInit ==
    /\ env = [clientId |-> "client-id", clientSecret |-> "client-secret", region |-> "us_east_1"]
    /\ accessToken = 1
    /\ exchanges = 1
    /\ pc = [c \in Callers |-> "idle"]
    /\ result = [c \in Callers |-> "none"]
    /\ held = [c \in Callers |-> 0]
    /\ ticket = [c \in Callers |-> 0]
    /\ mapFn = "none"
    /\ mapIn = <<JUndef, JUndef>>
    /\ mapOut = "none"
    /\ schema = NoSchema
    /\ pageDetails = NoDetails
    /\ call = NoCall
    /\ tpc = "idle"
    /\ net = <<>>
    /\ reply = NoReply
    /\ outcome = NoOutcome
    /\ platformSkills = [u \in Users |-> NoSkills]
    /\ selectedUserId = NoUser
    /\ currentUserSkills = NoSkills
    /\ modifiedSkills = NoSkills
    /\ fetches = {}
    /\ saving = NoSave
    /\ lastPut = NoSave
    /\ putCount = 0
    /\ qpc = "idle"
    /\ basicQueues = <<>>
    /\ observationResponse = NoObservations
    /\ queuesOut = NoQueuesOut
    /\ epc = "idle"
    /\ edgeData = <<JUndef, JUndef>>
    /\ metricsResponse = <<>>
    /\ edgeOut = NoEdgeOut
    /\ upc = "idle"
    /\ userResponse = NoUserResponse
    /\ usersOut = NoUsersOut
    /\ cpc = "idle"
    /\ conversationsResponse = NoConversationsResponse
    /\ conversationsOut = NoConversationsOut
    /\ selectedTableId = NoTable
    /\ dataTableDetails = NoPageDetails
    /\ dataTableRows = NoPageRows
    /\ loads = {}
    /\ editingRowId = JNull
    /\ editedRowData = NoEditedRow
    /\ rowWrite = NoRowWrite
    /\ dpc = "idle"
    /\ userVersion = 1
    /\ currentUser = NoCurrentUser
    /\ patches = <<>>
    /\ patchReply = "none"
    /\ divisionOut = NoDivisionOut
    /\ divisionCall = NoDivisionCall
    /\ edgeFailure = "none"

EdgeNext ==
    \/ GetEdgeDetails /\ UNCHANGED <<gateVars, mapperVars, tableVars, skillVars, queueVars, userVars, convVars, pageVars, divisionVars>>
    \/ EdgeFetched /\ UNCHANGED <<gateVars, mapperVars, tableVars, skillVars, queueVars, userVars, convVars, pageVars, divisionVars>>
    \/ EdgeFetchFailed /\ UNCHANGED <<gateVars, mapperVars, tableVars, skillVars, queueVars, userVars, convVars, pageVars, divisionVars>>

SpecEdge == EdgeInit /\ [][EdgeNext]_vars

(***************************************************************************)
(* User list (getGenesysUsers)                                             *)
(***************************************************************************)
\* userResponse.entities: none, or one listed user
UserEntityLists ==
    {<<>>} \cup {<<user>> : user \in [profile : UserProfiles, contactInfo : ContactInfos]}

\* getGenesysUsers is called: getUsers is issued
GetGenesysUsers ==
    /\ upc = "idle"
    /\ GatePasses
    /\ upc' = "fetching"
    /\ UNCHANGED <<userResponse, usersOut>>

\* getUsers answers: every listed user is mapped to a UserStatus record
UsersFetched ==
    /\ upc = "fetching"
    /\ \E entities \in UserEntityLists :
          /\ userResponse' = [status |-> "ok", entities |-> entities]
          /\ usersOut' = [kind |-> "list",
                          list |-> [i \in DOMAIN entities |->
                                       MappedUser(entities[i].profile, entities[i].contactInfo)]]
    /\ upc' = "done"

\* getUsers fails: getGenesysUsers throws
UsersFetchFailed ==
    /\ upc = "fetching"
    /\ upc' = "done"
    /\ usersOut' = [kind |-> "error", list |-> <<>>]
    /\ UNCHANGED userResponse

\* an authenticated process that has not listed its users yet
UsersInit ==
    /\ env = [clientId |-> "client-id", clientSecret |-> "client-secret", region |-> "us_east_1"]
    /\ accessToken = 1
    /\ exchanges = 1
    /\ pc = [c \in Callers |-> "idle"]
    /\ result = [c \in Callers |-> "none"]
    /\ held = [c \in Callers |-> 0]
    /\ ticket = [c \in Callers |-> 0]
    /\ mapFn = "none"
    /\ mapIn = <<JUndef, JUndef>>
    /\ mapOut = "none"
    /\ schema = NoSchema
    /\ pageDetails = NoDetails
    /\ call = NoCall
    /\ tpc = "idle"
    /\ net = <<>>
    /\ reply = NoReply
    /\ outcome = NoOutcome
    /\ platformSkills = [u \in Users |-> NoSkills]
    /\ selectedUserId = NoUser
    /\ currentUserSkills = NoSkills
    /\ modifiedSkills = NoSkills
    /\ fetches = {}
    /\ saving = NoSave
    /\ lastPut = NoSave
    /\ putCount = 0
    /\ qpc = "idle"
    /\ basicQueues = <<>>
    /\ observationResponse = NoObservations
    /\ queuesOut = NoQueuesOut
    /\ epc = "idle"
    /\ edgeData = <<JUndef, JUndef>>
    /\ metricsResponse = <<>>
    /\ edgeOut = NoEdgeOut
    /\ upc = "idle"
    /\ userResponse = NoUserResponse
    /\ usersOut = NoUsersOut
    /\ cpc = "idle"
    /\ conversationsResponse = NoConversationsResponse
    /\ conversationsOut = NoConversationsOut
    /\ selectedTableId = NoTable
    /\ dataTableDetails = NoPageDetails
    /\ dataTableRows = NoPageRows
    /\ loads = {}
    /\ editingRowId = JNull
    /\ editedRowData = NoEditedRow
    /\ rowWrite = NoRowWrite
    /\ dpc = "idle"
    /\ userVersion = 1
    /\ currentUser = NoCurrentUser
    /\ patches = <<>>
    /\ patchReply = "none"
    /\ divisionOut = NoDivisionOut
    /\ divisionCall = NoDivisionCall
    /\ edgeFailure = "none"

UsersNext ==
    \/ GetGenesysUsers /\ UNCHANGED <<gateVars, mapperVars, tableVars, skillVars, queueVars, edgeVars, convVars, pageVars, divisionVars>>
    \/ UsersFetched /\ UNCHANGED <<gateVars, mapperVars, tableVars, skillVars, queueVars, edgeVars, convVars, pageVars, divisionVars>>
    \/ UsersFetchFailed /\ UNCHANGED <<gateVars, mapperVars, tableVars, skillVars, queueVars, edgeVars, convVars, pageVars, divisionVars>>

SpecUsers == UsersInit /\ [][UsersNext]_vars

(***************************************************************************)
(* Conversation search (searchConversations)                               *)
(***************************************************************************)
\* result.conversations: none, or one conversation
ConversationLists ==
    {<<>>} \cup {<<conv>> : conv \in [conversationEnd : ConversationEnds,
                                        participants : ParticipantLists]}

\* searchConversations is called: the conversation detail query is issued
SearchConversations ==
    /\ cpc = "idle"
    /\ GatePasses
    /\ cpc' = "querying"
    /\ UNCHANGED <<conversationsResponse, conversationsOut>>

\* the query answers: every conversation is mapped to a search result
ConversationsFound ==
    /\ cpc = "querying"
    /\ \E conversations \in ConversationLists :
          /\ conversationsResponse' = [status |-> "ok", conversations |-> conversations]
          /\ conversationsOut' = [kind |-> "list",
                                  list |-> [i \in DOMAIN conversations |->
                                               MappedConversation(conversations[i])]]
    /\ cpc' = "done"

\* the query fails: searchConversations throws
ConversationsQueryFailed ==
    /\ cpc = "querying"
    /\ cpc' = "done"
    /\ conversationsOut' = [kind |-> "error", list |-> <<>>]
    /\ UNCHANGED conversationsResponse

\* an authenticated process that has not searched conversations yet
ConversationsInit ==
    /\ env = [clientId |-> "client-id", clientSecret |-> "client-secret", region |-> "us_east_1"]
    /\ accessToken = 1
    /\ exchanges = 1
    /\ pc = [c \in Callers |-> "idle"]
    /\ result = [c \in Callers |-> "none"]
    /\ held = [c \in Callers |-> 0]
    /\ ticket = [c \in Callers |-> 0]
    /\ mapFn = "none"
    /\ mapIn = <<JUndef, JUndef>>
    /\ mapOut = "none"
    /\ schema = NoSchema
    /\ pageDetails = NoDetails
    /\ call = NoCall
    /\ tpc = "idle"
    /\ net = <<>>
    /\ reply = NoReply
    /\ outcome = NoOutcome
    /\ platformSkills = [u \in Users |-> NoSkills]
    /\ selectedUserId = NoUser
    /\ currentUserSkills = NoSkills
    /\ modifiedSkills = NoSkills
    /\ fetches = {}
    /\ saving = NoSave
    /\ lastPut = NoSave
    /\ putCount = 0
    /\ qpc = "idle"
    /\ basicQueues = <<>>
    /\ observationResponse = NoObservations
    /\ queuesOut = NoQueuesOut
    /\ epc = "idle"
    /\ edgeData = <<JUndef, JUndef>>
    /\ metricsResponse = <<>>
    /\ edgeOut = NoEdgeOut
    /\ upc = "idle"
    /\ userResponse = NoUserResponse
    /\ usersOut = NoUsersOut
    /\ cpc = "idle"
    /\ conversationsResponse = NoConversationsResponse
    /\ conversationsOut = NoConversationsOut
    /\ selectedTableId = NoTable
    /\ dataTableDetails = NoPageDetails
    /\ dataTableRows = NoPageRows
    /\ loads = {}
    /\ editingRowId = JNull
    /\ editedRowData = NoEditedRow
    /\ rowWrite = NoRowWrite
    /\ dpc = "idle"
    /\ userVersion = 1
    /\ currentUser = NoCurrentUser
    /\ patches = <<>>
    /\ patchReply = "none"
    /\ divisionOut = NoDivisionOut
    /\ divisionCall = NoDivisionCall
    /\ edgeFailure = "none"

ConversationsNext ==
    \/ SearchConversations /\ UNCHANGED <<gateVars, mapperVars, tableVars, skillVars, queueVars, edgeVars, userVars, pageVars, divisionVars>>
    \/ ConversationsFound /\ UNCHANGED <<gateVars, mapperVars, tableVars, skillVars, queueVars, edgeVars, userVars, pageVars, divisionVars>>
    \/ ConversationsQueryFailed /\ UNCHANGED <<gateVars, mapperVars, tableVars, skillVars, queueVars, edgeVars, userVars, pageVars, divisionVars>>

SpecConversations == ConversationsInit /\ [][ConversationsNext]_vars

(***************************************************************************)
(* Data-table page: table selection, loads and the edit dialog             *)
(***************************************************************************)
isSubmitting == rowWrite.at = "pending"

\* fetchDataForTable(tableId): both transitions start, the page state is
\* cleared, and the two requests are in flight
FetchDataForTable(tableId) ==
    /\ dataTableDetails' = NoPageDetails
    /\ dataTableRows' = NoPageRows
    /\ loads' = loads \cup {[kind |-> "details", table |-> tableId],
                            [kind |-> "rows", table |-> tableId]}

\* the user picks another table in the Select: the effect on selectedTableId
\* calls fetchDataForTable
SelectTable(tableId) ==
    /\ tableId # selectedTableId
    /\ ~editedRowData.set
    /\ selectedTableId' = tableId
    /\ FetchDataForTable(tableId)
    /\ UNCHANGED <<editingRowId, editedRowData, rowWrite>>

\* handleRefresh
HandleRefresh ==
    /\ selectedTableId # NoTable
    /\ loads = {}
    /\ ~isSubmitting
    /\ ~editedRowData.set
    /\ FetchDataForTable(selectedTableId)
    /\ UNCHANGED <<selectedTableId, editingRowId, editedRowData, rowWrite>>

\* getDataTableDetails(tableId) resolves: setDataTableDetails(details)
DetailsLoaded(tableId) ==
    /\ [kind |-> "details", table |-> tableId] \in loads
    /\ loads' = loads \ {[kind |-> "details", table |-> tableId]}
    /\ dataTableDetails' = PageDetails(tableId)
    /\ UNCHANGED <<selectedTableId, dataTableRows, editingRowId, editedRowData, rowWrite>>

\* getDataTableDetails(tableId) rejects: setDataTableDetails(null)
DetailsLoadFailed(tableId) ==
    /\ [kind |-> "details", table |-> tableId] \in loads
    /\ loads' = loads \ {[kind |-> "details", table |-> tableId]}
    /\ dataTableDetails' = NoPageDetails
    /\ UNCHANGED <<selectedTableId, dataTableRows, editingRowId, editedRowData, rowWrite>>

\* getDataTableRows(tableId) resolves: setDataTableRows(rows)
RowsLoaded(tableId) ==
    /\ [kind |-> "rows", table |-> tableId] \in loads
    /\ loads' = loads \ {[kind |-> "rows", table |-> tableId]}
    /\ dataTableRows' = [of |-> tableId, entities |-> PlatformRows(tableId)]
    /\ UNCHANGED <<selectedTableId, dataTableDetails, editingRowId, editedRowData, rowWrite>>

\* getDataTableRows(tableId) rejects: setDataTableRows([])
RowsLoadFailed(tableId) ==
    /\ [kind |-> "rows", table |-> tableId] \in loads
    /\ loads' = loads \ {[kind |-> "rows", table |-> tableId]}
    /\ dataTableRows' = NoPageRows
    /\ UNCHANGED <<selectedTableId, dataTableDetails, editingRowId, editedRowData, rowWrite>>

\* handleEdit(row): the Edit button of a listed row
HandleEdit(rowIndex) ==
    /\ rowIndex \in DOMAIN dataTableRows.entities
    /\ ~isSubmitting
    /\ ~editedRowData.set
    /\ ~JFalsy(dataTableDetails.primaryKeyField)
    /\ LET row == dataTableRows.entities[rowIndex]
           pkField == dataTableDetails.primaryKeyField.s
       IN  /\ editingRowId' = JStr(StringOf(Field(row, pkField)))
           /\ editedRowData' = [set |-> TRUE, row |-> row]
    /\ UNCHANGED <<selectedTableId, dataTableDetails, dataTableRows, loads, rowWrite>>

\* handleInputChange(fieldName, value, 'edit') from an input of the dialog
HandleInputChange(fieldName, value) ==
    /\ editedRowData.set
    /\ ~isSubmitting
    /\ fieldName \in DOMAIN dataTableDetails.columns
    /\ value \in EditInputs(dataTableDetails.columns[fieldName].type)
    /\ editedRowData' = [editedRowData EXCEPT !.row = MapSet(@, fieldName, value)]
    /\ UNCHANGED <<selectedTableId, dataTableDetails, dataTableRows, loads, editingRowId, rowWrite>>

\* handleCancelEdit
HandleCancelEdit ==
    /\ editedRowData.set
    /\ ~isSubmitting
    /\ editedRowData' = NoEditedRow
    /\ editingRowId' = JNull
    /\ UNCHANGED <<selectedTableId, dataTableDetails, dataTableRows, loads, rowWrite>>

\* handleSaveEdit: the payload is built from the loaded schema and handed to
\* updateDataTableRow, which sends its JSON copy to the platform
HandleSaveEdit ==
    /\ editedRowData.set
    /\ ~isSubmitting
    /\ IF selectedTableId = NoTable \/ JFalsy(editingRowId) \/ dataTableDetails = NoPageDetails
       THEN rowWrite' = [NoRowWrite EXCEPT !.at = "refused"]
       ELSE LET payloadForUpdate == PayloadForUpdate(editedRowData.row, dataTableDetails.columns)
            IN  rowWrite' = [at |-> "pending", table |-> selectedTableId,
                             rowId |-> editingRowId.s, schemaOf |-> dataTableDetails.id,
                             payload |-> payloadForUpdate,
                             body |-> JsonRoundTrip(payloadForUpdate)]
    /\ UNCHANGED <<selectedTableId, dataTableDetails, dataTableRows, loads, editingRowId, editedRowData>>

\* putFlowsDatatableRow succeeds: the table is fetched again and the dialog closes
UpdateResolved ==
    /\ isSubmitting
    /\ rowWrite' = [rowWrite EXCEPT !.at = "ok"]
    /\ FetchDataForTable(rowWrite.table)
    /\ editedRowData' = NoEditedRow
    /\ editingRowId' = JNull
    /\ UNCHANGED selectedTableId

\* putFlowsDatatableRow fails: a toast, the dialog stays open
UpdateRejected ==
    /\ isSubmitting
    /\ rowWrite' = [rowWrite EXCEPT !.at = "failed"]
    /\ UNCHANGED <<selectedTableId, dataTableDetails, dataTableRows, loads, editingRowId, editedRowData>>

\* the page is mounted with both tables listed and none selected; the
\* process holds a cached credential
PageInit ==
    /\ env = [clientId |-> "client-id", clientSecret |-> "client-secret", region |-> "us_east_1"]
    /\ accessToken = 1
    /\ exchanges = 1
    /\ pc = [c \in Callers |-> "idle"]
    /\ result = [c \in Callers |-> "none"]
    /\ held = [c \in Callers |-> 0]
    /\ ticket = [c \in Callers |-> 0]
    /\ mapFn = "none"
    /\ mapIn = <<JUndef, JUndef>>
    /\ mapOut = "none"
    /\ schema = NoSchema
    /\ pageDetails = NoDetails
    /\ call = NoCall
    /\ tpc = "idle"
    /\ net = <<>>
    /\ reply = NoReply
    /\ outcome = NoOutcome
    /\ platformSkills = [u \in Users |-> NoSkills]
    /\ selectedUserId = NoUser
    /\ currentUserSkills = NoSkills
    /\ modifiedSkills = NoSkills
    /\ fetches = {}
    /\ saving = NoSave
    /\ lastPut = NoSave
    /\ putCount = 0
    /\ qpc = "idle"
    /\ basicQueues = <<>>
    /\ observationResponse = NoObservations
    /\ queuesOut = NoQueuesOut
    /\ epc = "idle"
    /\ edgeData = <<JUndef, JUndef>>
    /\ metricsResponse = <<>>
    /\ edgeOut = NoEdgeOut
    /\ upc = "idle"
    /\ userResponse = NoUserResponse
    /\ usersOut = NoUsersOut
    /\ cpc = "idle"
    /\ conversationsResponse = NoConversationsResponse
    /\ conversationsOut = NoConversationsOut
    /\ selectedTableId = NoTable
    /\ dataTableDetails = NoPageDetails
    /\ dataTableRows = NoPageRows
    /\ loads = {}
    /\ editingRowId = JNull
    /\ editedRowData = NoEditedRow
    /\ rowWrite = NoRowWrite
    /\ dpc = "idle"
    /\ userVersion = 1
    /\ currentUser = NoCurrentUser
    /\ patches = <<>>
    /\ patchReply = "none"
    /\ divisionOut = NoDivisionOut
    /\ divisionCall = NoDivisionCall
    /\ edgeFailure = "none"

PageNext ==
    \/ \E tableId \in PageTables : SelectTable(tableId) /\ UNCHANGED <<gateVars, mapperVars, tableVars, skillVars, readVars, divisionVars>>
    \/ HandleRefresh /\ UNCHANGED <<gateVars, mapperVars, tableVars, skillVars, readVars, divisionVars>>
    \/ \E tableId \in PageTables : DetailsLoaded(tableId) /\ UNCHANGED <<gateVars, mapperVars, tableVars, skillVars, readVars, divisionVars>>
    \/ \E tableId \in PageTables : DetailsLoadFailed(tableId) /\ UNCHANGED <<gateVars, mapperVars, tableVars, skillVars, readVars, divisionVars>>
    \/ \E tableId \in PageTables : RowsLoaded(tableId) /\ UNCHANGED <<gateVars, mapperVars, tableVars, skillVars, readVars, divisionVars>>
    \/ \E tableId \in PageTables : RowsLoadFailed(tableId) /\ UNCHANGED <<gateVars, mapperVars, tableVars, skillVars, readVars, divisionVars>>
    \/ \E rowIndex \in DOMAIN dataTableRows.entities : HandleEdit(rowIndex) /\ UNCHANGED <<gateVars, mapperVars, tableVars, skillVars, readVars, divisionVars>>
    \/ \E fieldName \in PropNames, value \in EditInputs("number") \cup EditInputs("string") :
          HandleInputChange(fieldName, value) /\ UNCHANGED <<gateVars, mapperVars, tableVars, skillVars, readVars, divisionVars>>
    \/ HandleCancelEdit /\ UNCHANGED <<gateVars, mapperVars, tableVars, skillVars, readVars, divisionVars>>
    \/ HandleSaveEdit /\ UNCHANGED <<gateVars, mapperVars, tableVars, skillVars, readVars, divisionVars>>
    \/ UpdateResolved /\ UNCHANGED <<gateVars, mapperVars, tableVars, skillVars, readVars, divisionVars>>
    \/ UpdateRejected /\ UNCHANGED <<gateVars, mapperVars, tableVars, skillVars, readVars, divisionVars>>

SpecPage == PageInit /\ [][PageNext]_vars

(***************************************************************************)
(* updateUserDivision                                                      *)
(***************************************************************************)
\* updateUserDivision(userId, divisionId) is called: the gate passes and
\* getUser is issued
UpdateUserDivision ==
    /\ dpc = "idle"
    /\ GatePasses
    /\ \E userId \in Users, divisionId \in NewDivisions :
          divisionCall' = [userId |-> userId, divisionId |-> divisionId]
    /\ dpc' = "getUser"
    /\ UNCHANGED <<userVersion, currentUser, patches, patchReply, divisionOut>>

\* another writer changes the user on the platform: its version stamp moves on
ConcurrentChange ==
    /\ dpc \in {"getUser", "patch"}
    /\ userVersion <= MaxChanges
    /\ userVersion' = userVersion + 1
    /\ UNCHANGED <<divisionCall, dpc, currentUser, patches, patchReply, divisionOut>>

\* getUser answers, with or without a version stamp: without one the
\* function throws, with one it issues the patch
UserRead ==
    /\ dpc = "getUser"
    /\ \E hasVersion \in BOOLEAN :
          LET user == [answered |-> TRUE,
                       version |-> IF hasVersion THEN JNum(userVersion) ELSE JUndef]
          IN  /\ currentUser' = user
              /\ IF user.version = JUndef
                 THEN /\ divisionOut' = DivisionThrown
                      /\ dpc' = "done"
                      /\ UNCHANGED patches
                 ELSE /\ patches' = Append(patches, UpdateBody(divisionCall.divisionId, user))
                      /\ dpc' = "patch"
                      /\ UNCHANGED divisionOut
    /\ UNCHANGED <<divisionCall, userVersion, patchReply>>

\* getUser fails: the catch block throws
UserReadFailed ==
    /\ dpc = "getUser"
    /\ divisionOut' = DivisionThrown
    /\ dpc' = "done"
    /\ UNCHANGED <<divisionCall, userVersion, currentUser, patches, patchReply>>

\* the platform applies a patch that carries the current version stamp
PatchApplied ==
    /\ dpc = "patch"
    /\ patches[Len(patches)].version = JNum(userVersion)
    /\ \E division \in DivisionRefs : divisionOut' = PatchedUser(division)
    /\ userVersion' = userVersion + 1
    /\ patchReply' = "ok"
    /\ dpc' = "done"
    /\ UNCHANGED <<divisionCall, currentUser, patches>>

\* the platform rejects the patch, for a stale version stamp or for another
\* reason: the catch block throws
PatchRejected ==
    /\ dpc = "patch"
    /\ patchReply' = IF patches[Len(patches)].version = JNum(userVersion)
                     THEN "rejected" ELSE "conflict"
    /\ divisionOut' = DivisionThrown
    /\ dpc' = "done"
    /\ UNCHANGED <<divisionCall, userVersion, currentUser, patches>>

\* an authenticated process; updateUserDivision has not been called yet
DivisionInit ==
    /\ env = [clientId |-> "client-id", clientSecret |-> "client-secret", region |-> "us_east_1"]
    /\ accessToken = 1
    /\ exchanges = 1
    /\ pc = [c \in Callers |-> "idle"]
    /\ result = [c \in Callers |-> "none"]
    /\ held = [c \in Callers |-> 0]
    /\ ticket = [c \in Callers |-> 0]
    /\ mapFn = "none"
    /\ mapIn = <<JUndef, JUndef>>
    /\ mapOut = "none"
    /\ schema = NoSchema
    /\ pageDetails = NoDetails
    /\ call = NoCall
    /\ tpc = "idle"
    /\ net = <<>>
    /\ reply = NoReply
    /\ outcome = NoOutcome
    /\ platformSkills = [u \in Users |-> NoSkills]
    /\ selectedUserId = NoUser
    /\ currentUserSkills = NoSkills
    /\ modifiedSkills = NoSkills
    /\ fetches = {}
    /\ saving = NoSave
    /\ lastPut = NoSave
    /\ putCount = 0
    /\ qpc = "idle"
    /\ basicQueues = <<>>
    /\ observationResponse = NoObservations
    /\ queuesOut = NoQueuesOut
    /\ epc = "idle"
    /\ edgeData = <<JUndef, JUndef>>
    /\ metricsResponse = <<>>
    /\ edgeOut = NoEdgeOut
    /\ upc = "idle"
    /\ userResponse = NoUserResponse
    /\ usersOut = NoUsersOut
    /\ cpc = "idle"
    /\ conversationsResponse = NoConversationsResponse
    /\ conversationsOut = NoConversationsOut
    /\ selectedTableId = NoTable
    /\ dataTableDetails = NoPageDetails
    /\ dataTableRows = NoPageRows
    /\ loads = {}
    /\ editingRowId = JNull
    /\ editedRowData = NoEditedRow
    /\ rowWrite = NoRowWrite
    /\ dpc = "idle"
    /\ userVersion \in 1..2
    /\ currentUser = NoCurrentUser
    /\ patches = <<>>
    /\ patchReply = "none"
    /\ divisionOut = NoDivisionOut
    /\ divisionCall = NoDivisionCall
    /\ edgeFailure = "none"

DivisionNext ==
    \/ UpdateUserDivision /\ UNCHANGED <<gateVars, mapperVars, tableVars, skillVars, readVars, pageVars>>
    \/ ConcurrentChange /\ UNCHANGED <<gateVars, mapperVars, tableVars, skillVars, readVars, pageVars>>
    \/ UserRead /\ UNCHANGED <<gateVars, mapperVars, tableVars, skillVars, readVars, pageVars>>
    \/ UserReadFailed /\ UNCHANGED <<gateVars, mapperVars, tableVars, skillVars, readVars, pageVars>>
    \/ PatchApplied /\ UNCHANGED <<gateVars, mapperVars, tableVars, skillVars, readVars, pageVars>>
    \/ PatchRejected /\ UNCHANGED <<gateVars, mapperVars, tableVars, skillVars, readVars, pageVars>>

SpecDivision == DivisionInit /\ [][DivisionNext]_vars



(***************************************************************************)
(* Claims about the session gate                                           *)
(***************************************************************************)

\* C1: once a token exchange has succeeded (the slot holds a token), no step
\* issues another token exchange, and every gate call that starts from then
\* on returns the client with the token that is cached at that moment.
C1_CachedCredentialReused ==
    [][accessToken # 0 =>
          /\ exchanges' = exchanges
          /\ \A c \in Callers :
                (pc[c] = "idle" /\ pc'[c] # "idle") =>
                    /\ pc'[c] = "returned"
                    /\ result'[c] = "client"
                    /\ held'[c] = accessToken]_vars

\* two calls have returned a client although only one exchange was issued
C1_Witness ==
    \E c, d \in Callers :
        /\ c # d
        /\ pc[c] = "returned" /\ pc[d] = "returned"
        /\ held[c] = accessToken /\ held[d] = accessToken
        /\ exchanges = 1

EnvInvalid ==
    \/ env.clientId \in {Undefined, ""}
    \/ env.clientSecret \in {Undefined, ""}
    \/ env.region \notin KnownRegions

SameLetter(x, y) ==
    x = y \/ \E k \in 1..26 : {x, y} = {LowerLetters[k], UpperLetters[k]}

EqualIgnoreCase(a, b) ==
    Len(a) = Len(b) /\ \A i \in 1..Len(a) : SameLetter(a[i], b[i])

PresenceTable ==
    {<<W_AVAILABLE, "Available">>, <<W_IDLE, "Available">>,
     <<W_BUSY, "Busy">>, <<W_MEAL, "Busy">>, <<W_TRAINING, "Busy">>,
     <<W_AWAY, "Away">>, <<W_BREAK, "Away">>,
     <<W_ON_QUEUE, "On Queue">>, <<W_MEETING, "Meeting">>, <<W_OFFLINE, "Offline">>}

\* C3: the presence mapper matches its input against the fixed table without
\* regard to letter case, returns Offline for every other string and for an
\* absent value, and so always yields one of the six presence statuses.
C3_PresenceTable ==
    mapFn = "presence" =>
        LET raw == mapIn[1]
            hits == {e \in PresenceTable : raw.t = "string" /\ EqualIgnoreCase(raw.s, e[1])}
        IN  /\ mapOut \in PresenceStatuses
            /\ \A e \in hits : mapOut = e[2]
            /\ hits = {} => mapOut = "Offline"

\* a mixed-case spelling of TRAINING has been mapped to Busy
C3_Witness ==
    /\ mapFn = "presence"
    /\ mapIn[1].t = "string"
    /\ mapIn[1].s # W_TRAINING
    /\ EqualIgnoreCase(mapIn[1].s, W_TRAINING)
    /\ mapOut = "Busy"

IsExactly(v, w) == v.t = "string" /\ v.s = w
IsWord(v, w) == v.t = "string" /\ EqualIgnoreCase(v.s, w)

\* C4 as stated: the edge mapper dispatches on the literal values ACTIVE /
\* INACTIVE and ONLINE / DEGRADED / OFFLINE and returns Unknown for every
\* other combination of arguments.
C4_EdgeTableLiteral ==
    mapFn = "edge" =>
        mapOut = IF IsExactly(mapIn[1], W_ACTIVE) /\ IsExactly(mapIn[2], W_ONLINE) THEN "Online"
                 ELSE IF IsExactly(mapIn[1], W_ACTIVE) /\ IsExactly(mapIn[2], W_DEGRADED) THEN "Degraded"
                 ELSE IF IsExactly(mapIn[1], W_ACTIVE) /\ IsExactly(mapIn[2], W_OFFLINE) THEN "Offline"
                 ELSE IF IsExactly(mapIn[1], W_INACTIVE) THEN "Offline"
                 ELSE "Unknown"

\* C4 amended: the edge mapper is total, compares state and onlineStatus
\* without regard to letter case, returns Online / Degraded / Offline for
\* state ACTIVE with onlineStatus ONLINE / DEGRADED / OFFLINE, Offline for
\* state INACTIVE whatever onlineStatus is, and Unknown for everything else.
C4_EdgeTableIgnoreCase ==
    mapFn = "edge" =>
        /\ mapOut \in EdgeStatuses
        /\ mapOut = IF IsWord(mapIn[1], W_ACTIVE) /\ IsWord(mapIn[2], W_ONLINE) THEN "Online"
                    ELSE IF IsWord(mapIn[1], W_ACTIVE) /\ IsWord(mapIn[2], W_DEGRADED) THEN "Degraded"
                    ELSE IF IsWord(mapIn[1], W_ACTIVE) /\ IsWord(mapIn[2], W_OFFLINE) THEN "Offline"
                    ELSE IF IsWord(mapIn[1], W_INACTIVE) THEN "Offline"
                    ELSE "Unknown"

\* an ACTIVE edge reported OFFLINE, neither spelled in capitals, mapped to Offline
C4_Witness ==
    /\ mapFn = "edge"
    /\ IsWord(mapIn[1], W_ACTIVE) /\ ~IsExactly(mapIn[1], W_ACTIVE)
    /\ IsWord(mapIn[2], W_OFFLINE) /\ ~IsExactly(mapIn[2], W_OFFLINE)
    /\ mapOut = "Offline"

(***************************************************************************)
(* Claims about primary-key inference                                      *)
(***************************************************************************)
Blank(str) == \A i \in 1..Len(str) : str[i] = " "

\* t is str without its leading and trailing blanks
IsTrimOf(t, str) ==
    /\ t = <<>> \/ (t[1] # " " /\ t[Len(t)] # " ")
    /\ \E i \in 0..Len(str) :
          /\ i + Len(t) <= Len(str)
          /\ Blank(SubSeq(str, 1, i))
          /\ SubSeq(str, i + 1, i + Len(t)) = t
          /\ Blank(SubSeq(str, i + Len(t) + 1, Len(str)))

\* schema.key is a string with something else than blanks in it
KeyGiven == schema.present /\ schema.key.t = "string" /\ ~Blank(schema.key.s)

\* C5: whenever schema.key is a string that is non-empty after trimming, the
\* inferred primary key is the trimmed schema.key, whatever schema.required
\* and schema.properties contain.
C5_KeyWins ==
    (pageDetails.loaded /\ KeyGiven) =>
        /\ pageDetails.primaryKeyField.t = "string"
        /\ IsTrimOf(pageDetails.primaryKeyField.s, schema.key.s)

\* key " a" wins over a usable single required entry "b" that is a declared property
C5_Witness ==
    /\ pageDetails.loaded
    /\ schema.key = JStr(<<" ", "a">>)
    /\ schema.required = [t |-> "array", items |-> <<JStr(<<"b">>)>>]
    /\ schema.properties.defined /\ <<"b">> \in schema.properties.names
    /\ pageDetails.primaryKeyField = JStr(<<"a">>)

SingleRequired ==
    /\ schema.required.t = "array"
    /\ Len(schema.required.items) = 1
    /\ schema.required.items[1].t = "string"

\* C6 as stated: when schema.key yields nothing, the primary key is the single
\* entry of schema.required if and only if schema.required is an array of
\* exactly one string that names a property present in schema.properties;
\* otherwise it is undefined.
C6_RequiredFallbackVerbatim ==
    (pageDetails.loaded /\ schema.present /\ ~KeyGiven) =>
        pageDetails.primaryKeyField =
            IF /\ SingleRequired
               /\ schema.properties.defined
               /\ schema.required.items[1].s \in schema.properties.names
            THEN JStr(schema.required.items[1].s)
            ELSE JUndef

\* C6 amended: when schema.key yields nothing, the primary key is the single
\* entry of schema.required with its surrounding blanks removed if and only if
\* schema.required is an array of exactly one string whose trimmed form is
\* non-empty and names a property present in schema.properties; otherwise it
\* is undefined.
C6_RequiredFallbackTrimmed ==
    (pageDetails.loaded /\ schema.present /\ ~KeyGiven) =>
        LET pk == pageDetails.primaryKeyField
            names == IF schema.properties.defined THEN schema.properties.names ELSE {}
            usable == /\ SingleRequired
                      /\ ~Blank(schema.required.items[1].s)
                      /\ \E name \in names : IsTrimOf(name, schema.required.items[1].s)
        IN  /\ usable => (pk.t = "string" /\ IsTrimOf(pk.s, schema.required.items[1].s))
            /\ ~usable => pk = JUndef

\* no key; the single required entry " b" is taken, trimmed, as the key "b"
C6_Witness ==
    /\ pageDetails.loaded
    /\ schema.key = JStr(<<>>)
    /\ schema.required = [t |-> "array", items |-> <<JStr(<<" ", "b">>)>>]
    /\ schema.properties.defined /\ <<"b">> \in schema.properties.names
    /\ pageDetails.primaryKeyField = JStr(<<"b">>)

(***************************************************************************)
(* Claims about the row operations                                         *)
(***************************************************************************)
Issued(apiCall) == \E i \in 1..Len(net) : net[i] = apiCall

\* C7: when the primary key of the table cannot be inferred, no row write
\* (create, update or delete) is submitted to the platform.
C7_NoWriteWithoutKey ==
    InferPrimaryKey(schema).t = "undefined" =>
        \A w \in RowWrites : ~Issued(w)

AbsentOrBlank(v) ==
    v.t \in {"undefined", "null"} \/ (v.t = "string" /\ Blank(v.s))

\* a create whose primary key is unresolved or whose payload has no key value
KeylessCreate ==
    /\ call.kind \in {"add", "create"}
    /\ LET pk == InferPrimaryKey(schema)
       IN  pk.t = "undefined" \/ AbsentOrBlank(Field(call.row, pk.s))

\* C8 as stated: a create with an unresolved primary key, or with an absent,
\* null or blank value at the primary-key field, issues no network call.
C8_NoNetworkCall == KeylessCreate => net = <<>>

PreFlightFailures ==
    {"NoPrimaryKey", "KeyMustHaveValue", "PageMissingData", "PagePrimaryKeyRequired"}

\* C8 amended: such a create never issues the row-create call and, unless the
\* token exchange or the schema read fails first, ends in a pre-flight
\* failure; the create dialog refuses it without any network call, while
\* addDataTableRow has by then issued the schema read (and the token exchange
\* when no credential is cached).
C8_NoCreateCall ==
    KeylessCreate =>
        /\ ~Issued("postFlowsDatatableRows")
        /\ \A i \in 1..Len(net) : net[i] \in {"login", "getFlowsDatatable"}
        /\ call.kind = "create" => net = <<>>
        /\ tpc = "done" =>
              outcome.kind \in PreFlightFailures \cup AuthErrors \cup {"DetailsFailed"}
        /\ (tpc = "done" /\ Issued("getFlowsDatatable") /\ outcome.kind # "DetailsFailed") =>
              outcome.kind \in PreFlightFailures

\* key field "a", payload {a: " ", b: 5}: refused after the schema read
C8_Witness ==
    /\ tpc = "done"
    /\ call.kind = "add" /\ call.origin = "direct"
    /\ InferPrimaryKey(schema) = JStr(<<"a">>)
    /\ call.row[<<"a">>] = JStr(<<" ">>)
    /\ call.row[<<"b">>] = JNum(5)
    /\ outcome.kind = "KeyMustHaveValue"
    /\ net = <<"login", "getFlowsDatatable">>

\* C9: whenever the platform answers a row create with a key conflict, the
\* failure reported is a duplicate-key failure naming the key value of the
\* submitted row, whether or not the answer carries a details list.
C9_ConflictNamesKey ==
    (tpc = "done" /\ call.kind = "add" /\ reply.code = KeyConflict) =>
        /\ outcome.kind = "DuplicateKey"
        /\ outcome.key = StringOf(Field(call.row, InferPrimaryKey(schema).s))

(***************************************************************************)
(* Claims about the skills page                                            *)
(***************************************************************************)

\* C10: every proficiency contained in a skill replace call is a number in
\* the range 1..5, whatever fetches, additions, removals and proficiency
\* edits preceded the save.
C10_SubmittedInRange ==
    lastPut.active =>
        \A k \in DOMAIN lastPut.body :
            /\ lastPut.body[k] # JNaN
            /\ lastPut.body[k].n \in 1..5

\* the two skill sets hold the same skill ids with the same proficiencies
SameSkills(a, b) ==
    /\ DOMAIN a = DOMAIN b
    /\ \A k \in DOMAIN a : a[k] = b[k]

C12_ServerSetAdopted ==
    [][/\ (saving.at = "put" /\ saving'.at = "saved") =>
             /\ SameSkills(modifiedSkills', saving'.answer)
             /\ SameSkills(currentUserSkills', saving'.answer)
             /\ SameSkills(saving'.answer, UserSkillsOf(platformSkills'[saving.user]))
       /\ (saving.at = "put" /\ saving'.at = "failed") =>
             /\ modifiedSkills' = modifiedSkills
             /\ currentUserSkills' = currentUserSkills
      ]_vars

\* a save has succeeded whose answer rates a skill differently from the
\* submitted local value, and the working set holds the answer
C12_Witness ==
    /\ saving.at = "saved"
    /\ SameSkills(modifiedSkills, saving.answer)
    /\ \E k \in DOMAIN saving.answer \cap DOMAIN saving.body :
          saving.answer[k] # saving.body[k]

(***************************************************************************)
(* Claims about the queue list                                             *)
(***************************************************************************)
\* the three gauges of a returned queue
Gauges(queue) ==
    <<queue.interactionsWaiting, queue.interactionsActive, queue.availableMembers>>

\* positions of the observation results whose group key is the queue id
Matching(id) ==
    {i \in DOMAIN observationResponse.results : observationResponse.results[i].queueId = id}

\* the value an observation result holds for a metric: the count of its last
\* point of that metric (0 when the count is missing), nothing without a point
ResultValue(observation, metric) ==
    LET at == {i \in DOMAIN observation.data : observation.data[i].metric = metric}
    IN  IF ~observation.hasData \/ at = {} THEN JUndef
        ELSE LET last == CHOOSE i \in at : \A j \in at : j <= i
             IN  IF observation.data[last].count \in {JUndef, JNull} THEN JNum(0)
                 ELSE observation.data[last].count

ResultGauges(observation) ==
    <<ResultValue(observation, "oWaiting"), ResultValue(observation, "oInteracting"),
      ResultValue(observation, "oAvailableUsers")>>

\* the returned list holds exactly the fetched queues
SameQueues ==
    /\ Len(queuesOut.list) = Len(basicQueues)
    /\ {queuesOut.list[i].id : i \in DOMAIN queuesOut.list}
          = {basicQueues[i].id : i \in DOMAIN basicQueues}

C14_JoinKeyedById ==
    queuesOut.kind = "list" =>
        /\ SameQueues
        /\ \A i \in DOMAIN queuesOut.list :
              \A k \in Matching(queuesOut.list[i].id) :
                  observationResponse.results[k].hasData =>
                      Gauges(queuesOut.list[i]) = ResultGauges(observationResponse.results[k])

\* C14: the returned list holds exactly the fetched queues; a queue carries
\* the metric values of the last observation result that has a data array and
\* whose group key is its id, and no gauge at all without such a result;
\* results with other keys change nothing.
C14_JoinLastResultWins ==
    queuesOut.kind = "list" =>
        /\ SameQueues
        /\ \A i \in DOMAIN queuesOut.list :
              LET withData == {k \in Matching(queuesOut.list[i].id) :
                                  observationResponse.results[k].hasData}
              IN  IF withData = {}
                  THEN Gauges(queuesOut.list[i]) = <<JUndef, JUndef, JUndef>>
                  ELSE LET last == CHOOSE k \in withData : \A j \in withData : j <= k
                       IN  Gauges(queuesOut.list[i])
                              = ResultGauges(observationResponse.results[last])

\* two queues were returned, one carrying the values of its result, next to
\* a result for a queue that was not fetched
C14_Witness ==
    /\ queuesOut.kind = "list"
    /\ Len(queuesOut.list) = 2
    /\ \E i \in DOMAIN queuesOut.list :
          Gauges(queuesOut.list[i]) = <<JNum(3), JNum(2), JNum(1)>>
    /\ \E k \in DOMAIN observationResponse.results :
          /\ observationResponse.results[k].queueId = "qx"
          /\ observationResponse.results[k].hasData

\* C15: when the queue list was fetched and the observation query failed,
\* getActiveQueues returns every fetched queue with the gauges a queue has
\* before any observation is joined, and does not throw.
C15_ObservationFailureDegrades ==
    observationResponse.status = "failed" =>
        /\ queuesOut.kind = "list"
        /\ SameQueues
        /\ \A i \in DOMAIN queuesOut.list :
              Gauges(queuesOut.list[i]) = <<JUndef, JUndef, JUndef>>

\* the observation query failed after two queues had been fetched
C15_Witness ==
    /\ qpc = "done"
    /\ observationResponse.status = "failed"
    /\ Len(basicQueues) = 2
    /\ Len(queuesOut.list) = 2

(***************************************************************************)
(* Claims about the edge metrics                                           *)
(***************************************************************************)
\* positions of the samples of a series that carry a timestamp and a value
ValidOf(metricName) ==
    {i \in DOMAIN metricsResponse :
        /\ metricsResponse[i].metric = metricName
        /\ metricsResponse[i].timestamp \notin {Undefined, ""}
        /\ metricsResponse[i].value # JUndef}

\* an entry of processedMetrics reports one of the newest valid samples of
\* its series, or is absent when the series has no valid sample
ReportsLatest(entry, metricName) ==
    IF ValidOf(metricName) = {} THEN ~entry.present
    ELSE /\ entry.present
         /\ \E i \in ValidOf(metricName) :
               /\ entry.value = metricsResponse[i].value
               /\ entry.timestamp = metricsResponse[i].timestamp
               /\ \A j \in ValidOf(metricName) :
                     DateTime(metricsResponse[j].timestamp) <= DateTime(metricsResponse[i].timestamp)

\* C16: for the cpu, memory and rtt series, the reported latest value and
\* timestamp are those of one sample that has the maximum timestamp among the
\* samples of the series carrying both a timestamp and a value; a series
\* without such a sample is absent from the result.
C16_LatestByMetric ==
    edgeOut.kind = "detail" =>
        /\ ReportsLatest(edgeOut.processedMetrics.latestCpuUsage, CPU)
        /\ ReportsLatest(edgeOut.processedMetrics.latestMemoryUsage, MEMORY)
        /\ ReportsLatest(edgeOut.processedMetrics.latestNetworkRtt, RTT)

\* the newest cpu sample precedes an older one in the input and is reported,
\* a cpu sample without a value is passed over, and the memory series is absent
C16_Witness ==
    /\ edgeOut.kind = "detail"
    /\ Len(metricsResponse) = 3
    /\ metricsResponse[1] = Sample(CPU, TS_Day2, JUndef, Undefined)
    /\ metricsResponse[2] = Sample(CPU, TS_Day1, JNum(0), Undefined)
    /\ metricsResponse[3] = Sample(CPU, TS_Day2, JNum(7), Undefined)
    /\ edgeOut.processedMetrics.latestCpuUsage.value = JNum(7)
    /\ edgeOut.processedMetrics.latestCpuUsage.timestamp = TS_Day2
    /\ ~edgeOut.processedMetrics.latestMemoryUsage.present

\* an entry of processedMetrics reports the first, in input order, of the
\* newest valid samples of its series
ReportsFirstOfLatest(entry, metricName) ==
    entry.present =>
        LET newest == {i \in ValidOf(metricName) :
                          \A j \in ValidOf(metricName) :
                              DateTime(metricsResponse[j].timestamp)
                                 <= DateTime(metricsResponse[i].timestamp)}
            first == CHOOSE i \in newest : \A j \in newest : i <= j
        IN  /\ entry.value = metricsResponse[first].value
            /\ entry.timestamp = metricsResponse[first].timestamp

\* C17: when several valid samples of a series share the maximum timestamp,
\* the one reported is fixed by the input order: it is the first of them in
\* the input sequence.
C17_TieByInputOrder ==
    edgeOut.kind = "detail" =>
        /\ ReportsFirstOfLatest(edgeOut.processedMetrics.latestCpuUsage, CPU)
        /\ ReportsFirstOfLatest(edgeOut.processedMetrics.latestMemoryUsage, MEMORY)
        /\ ReportsFirstOfLatest(edgeOut.processedMetrics.latestNetworkRtt, RTT)

\* two valid cpu samples of the same instant, spelled differently and with
\* different values, follow an older one; the first of the two is reported
C17_Witness ==
    /\ edgeOut.kind = "detail"
    /\ Len(metricsResponse) = 3
    /\ metricsResponse[1] = Sample(CPU, TS_Day1, JNum(7), Undefined)
    /\ metricsResponse[2] = Sample(CPU, TS_Day1Offset, JNum(0), Undefined)
    /\ metricsResponse[3] = Sample(CPU, TS_Day1, JNum(0), Undefined)
    /\ edgeOut.processedMetrics.latestCpuUsage.value = JNum(7)
    /\ edgeOut.processedMetrics.latestCpuUsage.timestamp = TS_Day1

(***************************************************************************)
(* Claims about column normalization                                       *)
(***************************************************************************)
\* the type a column is given for a declared type
DeclaredType(colType) ==
    IF colType.k = "string" THEN colType.name
    ELSE IF colType.k = "object" /\ colType.inner.k = "string" THEN colType.inner.name
    ELSE "string"

\* C18: the loaded details hold one column per schema property; its type is
\* the declared type when that is a string, the inner type when the declared
\* type is an object whose own type is a string, and "string" otherwise; a
\* column is tagged isPrimaryKey exactly when its name equals the inferred
\* primary key.  For key "", required ["a"], properties a: string, b: number
\* the primary key is "a", column a is tagged and column b is not.
C18_ColumnsNormalized ==
    pageDetails.loaded =>
        /\ DOMAIN pageDetails.columns
              = (IF schema.present /\ schema.properties.defined
                 THEN schema.properties.names ELSE {})
        /\ \A colName \in DOMAIN pageDetails.columns :
              /\ pageDetails.columns[colName].type
                    = DeclaredType(schema.properties.types[colName])
              /\ pageDetails.columns[colName].isPrimaryKey
                    <=> (pageDetails.primaryKeyField.t = "string"
                         /\ pageDetails.primaryKeyField.s = colName)
        /\ (/\ schema.present
            /\ schema.key = JStr(<<>>)
            /\ schema.required = [t |-> "array", items |-> <<JStr(<<"a">>)>>]
            /\ schema.properties.defined
            /\ schema.properties.names = {<<"a">>, <<"b">>}
            /\ schema.properties.types[<<"a">>] = TDirect("string")
            /\ schema.properties.types[<<"b">>] = TDirect("number"))
           => /\ pageDetails.primaryKeyField = JStr(<<"a">>)
              /\ pageDetails.columns[<<"a">>] = [type |-> "string", isPrimaryKey |-> TRUE]
              /\ pageDetails.columns[<<"b">>] = [type |-> "number", isPrimaryKey |-> FALSE]

\* details were loaded for key "", required ["a"], column a declared as a
\* string and column b declared one level down as a boolean
C18_Witness ==
    /\ pageDetails.loaded
    /\ schema.present
    /\ schema.key = JStr(<<>>)
    /\ schema.required = [t |-> "array", items |-> <<JStr(<<"a">>)>>]
    /\ schema.properties.names = {<<"a">>, <<"b">>}
    /\ schema.properties.types[<<"a">>] = TDirect("string")
    /\ schema.properties.types[<<"b">>] = TNested("boolean")
    /\ pageDetails.columns[<<"a">>] = [type |-> "string", isPrimaryKey |-> TRUE]
    /\ pageDetails.columns[<<"b">>] = [type |-> "boolean", isPrimaryKey |-> FALSE]

(***************************************************************************)
(* Claims about the user list                                              *)
(***************************************************************************)
\* the contact entry carries an extension
HasExtension(contact) == contact.extension \notin {Undefined, ""}

\* C19: the extension of a listed user is that of the first contact entry
\* with mediaType PHONE, type PRIMARY and an extension; without such an
\* entry, that of the first entry with mediaType PHONE and an extension;
\* otherwise undefined.
C19_ExtensionPreference ==
    usersOut.kind = "list" =>
        \A i \in DOMAIN usersOut.list :
            LET info == userResponse.entities[i].contactInfo
                primary == {k \in DOMAIN info.list :
                               /\ info.list[k].mediaType = "PHONE"
                               /\ info.list[k].type = "PRIMARY"
                               /\ HasExtension(info.list[k])}
                phone == {k \in DOMAIN info.list :
                             info.list[k].mediaType = "PHONE" /\ HasExtension(info.list[k])}
            IN  usersOut.list[i].extension =
                    (IF info.present /\ primary # {}
                     THEN info.list[CHOOSE k \in primary : \A j \in primary : k <= j].extension
                     ELSE IF info.present /\ phone # {}
                     THEN info.list[CHOOSE k \in phone : \A j \in phone : k <= j].extension
                     ELSE Undefined)

\* a work phone with an extension precedes the primary phone, whose
\* extension is the one returned
C19_Witness ==
    /\ usersOut.kind = "list"
    /\ Len(usersOut.list) = 1
    /\ userResponse.entities[1].contactInfo.list
          = <<[mediaType |-> "PHONE", type |-> "WORK", extension |-> "101"],
              [mediaType |-> "PHONE", type |-> "PRIMARY", extension |-> "202"]>>
    /\ usersOut.list[1].extension = "202"

(***************************************************************************)
(* Claims about the conversation search                                    *)
(***************************************************************************)
\* the media type of the participant's first session is populated
Populated(participant) ==
    /\ participant.hasSessions
    /\ Len(participant.sessions) > 0
    /\ participant.sessions[1] \notin {Undefined, ""}

\* C20: the primary media type of a conversation is the media type of the
\* first participant's first session when that is populated; otherwise a
\* populated media type of some participant is used whenever one exists, so
\* the result is undefined only if no participant carries one.
C20_AnyPopulatedMediaTypeUsed ==
    conversationsOut.kind = "list" =>
        \A i \in DOMAIN conversationsOut.list :
            LET participants == conversationsResponse.conversations[i].participants.list
                populated == {k \in DOMAIN participants : Populated(participants[k])}
            IN  /\ (participants # <<>> /\ Populated(participants[1])) =>
                      conversationsOut.list[i].primaryMediaType = participants[1].sessions[1]
                /\ populated # {} =>
                      conversationsOut.list[i].primaryMediaType
                         \in {participants[k].sessions[1] : k \in populated}


(***************************************************************************)
(* C21: In a row update, every numeric field whose value is not-a-number   *)
(* is submitted as null: neither the payload the page hands to             *)
(* updateDataTableRow nor the request body sent to the platform ever       *)
(* contains NaN, whatever field edits preceded the save.                   *)
(***************************************************************************)
IsNaN(v) == v.t = "number" /\ v.s = <<"N", "a", "N">>

C21_NaNSubmittedAsNull ==
    [][(rowWrite'.at = "pending" /\ rowWrite.at # "pending") =>
          /\ \A f \in DOMAIN rowWrite'.payload : ~IsNaN(rowWrite'.payload[f])
          /\ \A f \in DOMAIN rowWrite'.body : ~IsNaN(rowWrite'.body[f])
          /\ \A f \in DOMAIN editedRowData.row :
                (f \in DOMAIN dataTableDetails.columns /\ IsNaN(editedRowData.row[f]))
                   => /\ f \in DOMAIN rowWrite'.body
                      /\ rowWrite'.body[f] = JNull
                      /\ rowWrite'.payload[f] = JNull]_vars

\* an update is in flight for a row whose numeric field was edited to NaN
C21_Witness ==
    /\ rowWrite.at = "pending"
    /\ \E f \in DOMAIN editedRowData.row :
          /\ IsNaN(editedRowData.row[f])
          /\ f \in DOMAIN rowWrite.body
          /\ rowWrite.body[f] = JNull


(***************************************************************************)
(* C22: updateUserDivision sends the version stamp it read with the        *)
(* division patch and issues at most one patch per invocation: none when   *)
(* no version stamp could be read, and a patch the platform rejects (a     *)
(* stale-version conflict included) is raised to the caller and not        *)
(* retried.                                                                *)
(***************************************************************************)
C22_VersionedPatchNoRetry ==
    /\ Len(patches) <= 1
    /\ patches # <<>> =>
          /\ currentUser.answered
          /\ currentUser.version.t = "number"
          /\ patches[1].version = currentUser.version
          /\ patches[1].divisionId = divisionCall.divisionId
    /\ (currentUser.answered /\ currentUser.version.t = "undefined") =>
          /\ patches = <<>>
          /\ divisionOut.kind = "error"
    /\ patchReply \in {"conflict", "rejected"} =>
          /\ dpc = "done"
          /\ divisionOut.kind = "error"
          /\ Len(patches) = 1

\* the user changed between the version read and the patch, and the
\* platform answered the patch with a conflict
C22_Witness ==
    /\ patchReply = "conflict"
    /\ Len(patches) = 1
    /\ patches[1].version # JNum(userVersion)
    /\ divisionOut.kind = "error"


(***************************************************************************)
(* C23: For each of the six presence values (Available, Busy, Offline,     *)
(* On Queue, Away, Meeting), the presence mapper applied to the value's    *)
(* display name, in any letter case, returns that same presence value.     *)
(***************************************************************************)
DisplayName(status) ==
    CASE status = "Available" -> <<"A", "v", "a", "i", "l", "a", "b", "l", "e">>
      [] status = "Busy" -> <<"B", "u", "s", "y">>
      [] status = "Offline" -> <<"O", "f", "f", "l", "i", "n", "e">>
      [] status = "On Queue" -> <<"O", "n", " ", "Q", "u", "e", "u", "e">>
      [] status = "Away" -> <<"A", "w", "a", "y">>
      [] status = "Meeting" -> <<"M", "e", "e", "t", "i", "n", "g">>

C23_DisplayNameRoundTrip ==
    (mapFn = "presence" /\ mapIn[1].t = "string") =>
        \A status \in PresenceStatuses :
            EqualIgnoreCase(mapIn[1].s, DisplayName(status)) => mapOut = status


(***************************************************************************)
(* C24: In every normalized user record and every normalized queue record, *)
(* an absent division id or division name is represented by the literal    *)
(* "N/A", never by undefined or the empty string.                          *)
(***************************************************************************)
Absent(str) == str = Undefined \/ str = ""

UserDivisionSentinel ==
    /\ \A i \in DOMAIN usersOut.list :
          LET profile == userResponse.entities[i].profile
              record == usersOut.list[i]
          IN  /\ ~Absent(record.divisionId) /\ ~Absent(record.divisionName)
              /\ Absent(profile.division) => record.divisionId = "N/A"
              /\ Absent(profile.divisionName) => record.divisionName = "N/A"
    /\ divisionOut.kind = "user" =>
          ~Absent(divisionOut.divisionId) /\ ~Absent(divisionOut.divisionName)

QueueDivisionSentinel ==
    \A i \in DOMAIN queuesOut.list, j \in DOMAIN basicQueues :
        LET record == queuesOut.list[i]
            q == basicQueues[j]
        IN  q.id = record.id =>
               /\ ~Absent(record.divisionId) /\ ~Absent(record.divisionName)
               /\ Absent(q.divisionId) => record.divisionId = "N/A"
               /\ Absent(q.divisionName) => record.divisionName = "N/A"

C24_DivisionSentinel == UserDivisionSentinel /\ QueueDivisionSentinel


(***************************************************************************)
(* C25: When the token exchange rejects the credentials, the session gate  *)
(* fails with an authentication error and does not fill the credential     *)
(* slot, so a later call that finds the slot empty starts a token exchange *)
(* again and never returns a client without a token.                       *)
(***************************************************************************)
C25_RejectionLeavesSlotEmpty ==
    [][\A c \in Callers :
          /\ (pc[c] = "awaitLogin" /\ pc'[c] = "threw") =>
                /\ result'[c] \in AuthErrors
                /\ accessToken' = accessToken
          /\ (pc[c] = "idle" /\ pc'[c] # "idle" /\ accessToken = 0 /\ ~EnvInvalid) =>
                /\ pc'[c] = "awaitLogin"
                /\ exchanges' = exchanges + 1
          /\ (pc[c] = "idle" /\ pc'[c] = "returned") => accessToken # 0]_vars

\* one call has failed with an authentication error, the slot is empty, and
\* another call is waiting for a token exchange
C25_Witness ==
    \E c, d \in Callers :
        /\ c # d
        /\ pc[c] = "threw" /\ result[c] \in AuthErrors
        /\ accessToken = 0
        /\ pc[d] = "awaitLogin"

(***************************************************************************)
(* C27: The cached credential slot is written at most once per process     *)
(* lifetime: in every interleaving of gate calls at most one token         *)
(* exchange populates the slot.                                            *)
(***************************************************************************)
C27_WrittenAtMostOnce ==
    [][accessToken' # accessToken => accessToken = 0]_vars

\* C27 as the code has it: the slot is written by every token exchange that
\* resolves, with that exchange's token, and by nothing else; an exchange is
\* started only by a call that found the slot empty.
C27_WrittenPerResolvedExchange ==
    [][/\ accessToken' # accessToken =>
             \E c \in Callers :
                 pc[c] = "awaitLogin" /\ pc'[c] = "returned" /\ accessToken' = ticket[c]
       /\ \A c \in Callers :
             (pc[c] = "awaitLogin" /\ pc'[c] = "returned") => accessToken' = ticket[c]
       /\ exchanges' # exchanges => (accessToken = 0 /\ exchanges' = exchanges + 1)]_vars

\* a call has returned with a token that another exchange has since replaced
C27_Witness ==
    \E c \in Callers :
        /\ pc[c] = "returned"
        /\ held[c] \notin {0, accessToken}
        /\ accessToken # 0

(***************************************************************************)
(* C28: Under concurrent first use of the session gate the race is benign: *)
(* callers that all see the slot empty each run a token exchange, every    *)
(* caller that returns successfully holds a token some exchange issued,    *)
(* and once an exchange has succeeded the slot holds an issued token and   *)
(* is never empty again.                                                   *)
(***************************************************************************)
C28_RaceBenign ==
    [][/\ accessToken # 0 => accessToken' # 0
       /\ accessToken' \in 0..exchanges'
       /\ \A c \in Callers :
             pc'[c] = "returned" =>
                 /\ result'[c] = "client"
                 /\ held'[c] \in 1..exchanges'
                 /\ accessToken' \in 1..exchanges']_vars

\* two calls that both saw the slot empty have each completed their own exchange
C28_Witness ==
    \E c, d \in Callers :
        /\ c # d
        /\ pc[c] = "returned" /\ pc[d] = "returned"
        /\ held[c] # held[d]
        /\ exchanges = 2


(***************************************************************************)
(* C26: A failure of a secondary enrichment call (metrics, observations)   *)
(* never fails the primary read: the primary entity is still returned,     *)
(* degraded to defaults. In particular getEdgeDetails returns the edge     *)
(* record with no latest-sample metrics when the metrics call fails while  *)
(* the edge fetch succeeds.                                                *)
(***************************************************************************)
C26_EnrichmentFailureDegrades ==
    /\ (epc = "done" /\ edgeFailure = "metrics") =>
          /\ edgeOut.kind = "detail"
          /\ edgeOut.status = MapEdgeApiStatus(edgeData[1], edgeData[2])
          /\ ~edgeOut.processedMetrics.latestCpuUsage.present
          /\ ~edgeOut.processedMetrics.latestMemoryUsage.present
          /\ ~edgeOut.processedMetrics.latestNetworkRtt.present
    /\ (qpc = "done" /\ observationResponse = ObservationsRejected) =>
          queuesOut.kind = "list"


(***************************************************************************)
(* C29: On the skills page, once every skill fetch and save in flight has  *)
(* completed, the last-fetched set holds the skills of the currently       *)
(* selected user (or is empty after a failed fetch), in whatever order the *)
(* responses for earlier selections arrived; hence a save never submits a  *)
(* set loaded for one user as the replace call for another.                *)
(***************************************************************************)
C29_SetsOfSelectedUser ==
    (selectedUserId # NoUser /\ fetches = {} /\ ~saving.active) =>
        \/ currentUserSkills = NoSkills
        \/ SameSkills(currentUserSkills, UserSkillsOf(platformSkills[selectedUserId]))


(***************************************************************************)
(* C30: On the data-table page, once every load in flight has completed,   *)
(* the loaded schema details and the loaded rows both belong to the        *)
(* currently selected table (or are empty after a failed load), in         *)
(* whatever order the responses of earlier selections or refreshes         *)
(* arrived; hence a row update is never built from one table's schema and  *)
(* sent to another table.                                                  *)
(***************************************************************************)
C30_LoadedStateOfSelectedTable ==
    /\ (selectedTableId # NoTable /\ loads = {}) =>
          /\ dataTableDetails.id \in {NoTable, selectedTableId}
          /\ dataTableRows.of \in {NoTable, selectedTableId}
    /\ rowWrite.at \in {"pending", "ok", "failed"} => rowWrite.schemaOf = rowWrite.table

====
